---- MODULE Spec2Model ----
(***************************************************************************)
(* Transaction preparation engine of lunark: identifier resolution, quote  *)
(* aggregation, slippage bound, balance preflight and the pending-         *)
(* transaction record (persist, then publish).                             *)
(*                                                                         *)
(* Strings are sequences of one-character strings, so that toLowerCase,    *)
(* toUpperCase, trim and endsWith are computed, not assumed.               *)
(* Amounts and balances are integers in the token's base units.            *)
(***************************************************************************)
EXTENDS Integers, Sequences, FiniteSets, TLC

\* ------------------------------------------------------------------ bounds
\* number of hex digits of an address in the model (40 in ethers)
AddrHexLen == 4
\* largest balance / allowance the chain data provider answers
MaxBalance == 2
\* largest amount a request asks to move
MaxAmount == 2
\* largest amountOut a venue quotes
MaxQuote == 2
\* number of contact rows the data store holds at most
MaxContacts == 2
\* number of tool invocations in one behaviour
MaxRequests == 1

\* ----------------------------------------------------------------- strings
\* a string literal of the source as the sequence of its characters
Str(s) == [i \in 1..Len(s) |-> SubSeq(s, i, i)]

UpperChars == Str("ABCDEFGHIJKLMNOPQRSTUVWXYZ")
LowerChars == Str("abcdefghijklmnopqrstuvwxyz")
Digits == {"0","1","2","3","4","5","6","7","8","9"}

\* the lower-case letter of each upper-case letter, and the reverse
LowerOf == [c \in {UpperChars[i] : i \in 1..26} |->
              LowerChars[CHOOSE i \in 1..26 : UpperChars[i] = c]]
UpperOf == [c \in {LowerChars[i] : i \in 1..26} |->
              UpperChars[CHOOSE i \in 1..26 : LowerChars[i] = c]]
IsUpperChar(c) == c \in DOMAIN LowerOf
IsLowerChar(c) == c \in DOMAIN UpperOf
LowerChar(c) == IF IsUpperChar(c) THEN LowerOf[c] ELSE c
UpperChar(c) == IF IsLowerChar(c) THEN UpperOf[c] ELSE c

\* String.prototype.toLowerCase / toUpperCase
toLowerCase(s) == [i \in 1..Len(s) |-> LowerChar(s[i])]
toUpperCase(s) == [i \in 1..Len(s) |-> UpperChar(s[i])]

\* String.prototype.trim
RECURSIVE TrimLeft(_)
TrimLeft(s) == IF s # <<>> /\ Head(s) = " " THEN TrimLeft(Tail(s)) ELSE s
RECURSIVE TrimRight(_)
TrimRight(s) == IF s # <<>> /\ s[Len(s)] = " " THEN TrimRight(SubSeq(s, 1, Len(s) - 1)) ELSE s
trim(s) == TrimRight(TrimLeft(s))

\* String.prototype.endsWith
endsWith(s, suffix) ==
    /\ Len(s) >= Len(suffix)
    /\ SubSeq(s, Len(s) - Len(suffix) + 1, Len(s)) = suffix

\* the value null / undefined (never equal to a string)
Null == <<"<null>">>

\* --------------------------------------------------------------- addresses
HexLowerLetters == {"a","b","c","d","e","f"}
HexUpperLetters == {"A","B","C","D","E","F"}
HexChars == Digits \cup HexLowerLetters \cup HexUpperLetters

\* the mixed-case checksum form of a lower-case hex body; ethers derives the
\* letter case from keccak256, the model from the digit's position
ChecksumBody(body) ==
    [i \in 1..Len(body) |-> IF i % 2 = 1 THEN UpperChar(body[i]) ELSE LowerChar(body[i])]

HasUpperHex(body) == \E i \in 1..Len(body) : body[i] \in HexUpperLetters
HasLowerHex(body) == \E i \in 1..Len(body) : body[i] \in HexLowerLetters

\* ethers.isAddress: optional 0x prefix, AddrHexLen hex digits, and when the
\* letters are of mixed case they must be the checksum form
IsAddressBody(body) ==
    /\ Len(body) = AddrHexLen
    /\ \A i \in 1..Len(body) : body[i] \in HexChars
    /\ (HasUpperHex(body) /\ HasLowerHex(body)) => body = ChecksumBody(toLowerCase(body))

isAddress(s) ==
    \/ /\ Len(s) = AddrHexLen + 2
       /\ SubSeq(s, 1, 2) = Str("0x")
       /\ IsAddressBody(SubSeq(s, 3, Len(s)))
    \/ /\ Len(s) = AddrHexLen
       /\ IsAddressBody(s)

\* an address literal of the model: 0x, the given leading digits, zero padded
Addr(lead) == Str("0x") \o Str(lead) \o [i \in 1..(AddrHexLen - Len(lead)) |-> "0"]

\* ---------------------------------------------------------- network table
\* chain ids of NETWORKS the model runs requests on
Chains == {1, 8453}
\* chain ids of NETWORKS (a request may name any of them, or none of them)
NETWORKS == {1, 42161, 137, 56, 43114, 10, 8453, 11155111}

getNativeSymbol(chainId) ==
    CASE chainId \in {1, 42161, 10, 8453, 11155111} -> Str("ETH")
      [] chainId = 137 -> Str("MATIC")
      [] chainId = 56 -> Str("BNB")
      [] chainId = 43114 -> Str("AVAX")
      [] OTHER -> Str("ETH")

\* ------------------------------------------------------------ token table
\* TOKENS, restricted to three symbols and the chains of the model; the
\* addresses are the model's short forms of the registered ones

TokenSymbols == {Str("USDC"), Str("WETH"), Str("WBTC")}

TOKENS(sym) ==
    CASE sym = Str("USDC") -> [decimals |-> 6, addresses |-> (1 :> Addr("A0B8") @@ 8453 :> Addr("8335"))]
      [] sym = Str("WETH") -> [decimals |-> 18, addresses |-> (1 :> Addr("C02a") @@ 8453 :> Addr("4200"))]
      [] sym = Str("WBTC") -> [decimals |-> 8, addresses |-> (1 :> Addr("2260"))]

\* getToken(symbol, chainId): not found (null), or the address and decimals
getToken(symbol, chainId) ==
    LET upperSymbol == toUpperCase(symbol) IN
    IF upperSymbol \notin TokenSymbols THEN [found |-> FALSE]
    ELSE IF chainId \notin DOMAIN TOKENS(upperSymbol).addresses THEN [found |-> FALSE]
    ELSE [found |-> TRUE, address |-> TOKENS(upperSymbol).addresses[chainId],
          decimals |-> TOKENS(upperSymbol).decimals]

nativeTokens(chainId) ==
    CASE chainId \in {1, 42161, 10, 8453, 11155111} -> {Str("ETH"), Str("ETHER")}
      [] chainId = 137 -> {Str("MATIC"), Str("POL")}
      [] chainId = 43114 -> {Str("AVAX")}
      [] chainId = 56 -> {Str("BNB")}
      [] OTHER -> {}

isNativeToken(symbol, chainId) == toUpperCase(symbol) \in nativeTokens(chainId)

WRAPPED_NATIVE == (1 :> Addr("C02a") @@ 8453 :> Addr("4200"))

\* ------------------------------------------------------------ alias tables

TOKEN_ALIASES_transfer ==
    (Str("dollar") :> Str("USDC") @@ Str("dolar") :> Str("USDC") @@ Str("usd") :> Str("USDC") @@ Str("$") :> Str("USDC") @@
     Str("tether") :> Str("USDT") @@ Str("ether") :> Str("ETH") @@ Str("bitcoin") :> Str("WBTC") @@ Str("btc") :> Str("WBTC"))

TOKEN_ALIASES_approve ==
    (Str("dollar") :> Str("USDC") @@ Str("dolar") :> Str("USDC") @@ Str("usd") :> Str("USDC") @@ Str("$") :> Str("USDC") @@
     Str("tether") :> Str("USDT") @@ Str("bitcoin") :> Str("WBTC") @@ Str("btc") :> Str("WBTC"))

TOKEN_ALIASES_swap ==
    (Str("dollar") :> Str("USDC") @@ Str("dolar") :> Str("USDC") @@ Str("usd") :> Str("USDC") @@ Str("tether") :> Str("USDT") @@
     Str("bitcoin") :> Str("WBTC") @@ Str("btc") :> Str("WBTC") @@ Str("ether") :> Str("ETH") @@ Str("eth") :> Str("ETH") @@
     Str("ethereum") :> Str("ETH"))

\* lower-case property names every object literal inherits from
\* Object.prototype: TOKEN_ALIASES[key] and DEX_PROTOCOLS[key] are truthy
\* for them (a function, an object), and no string
ObjectPrototypeKeys == {Str("constructor"), Str("__proto__")}

\* table[key] || fallback, for a key that is an own property or no property
AliasOr(table, key, fallback) == IF key \in DOMAIN table THEN table[key] ELSE fallback

\* ---------------------------------------------------------- token resolver
\* a resolution result: ok, or the error thrown / the null returned
TokenNotFound == [ok |-> FALSE, error |-> "TokenNotFound"]
\* resolvedSymbol is an inherited member: symbol.toUpperCase is not a function
TokenTypeError == [ok |-> FALSE, error |-> "TypeError"]

\* transfer.ts resolveToken: undefined or '' is the native asset
resolveToken_transfer(tokenInput, chainId) ==
    IF tokenInput = Null \/ tokenInput = <<>>
    THEN [ok |-> TRUE, address |-> Null, symbol |-> getNativeSymbol(chainId), decimals |-> 18]
    ELSE IF isAddress(tokenInput)
    THEN [ok |-> TRUE, address |-> tokenInput, symbol |-> Str("TOKEN"), decimals |-> 18]
    ELSE LET normalizedInput == trim(toLowerCase(tokenInput))
             resolvedSymbol == AliasOr(TOKEN_ALIASES_transfer, normalizedInput, tokenInput)
             token == getToken(resolvedSymbol, chainId)
         IN IF normalizedInput \in ObjectPrototypeKeys THEN TokenTypeError
            ELSE IF isNativeToken(resolvedSymbol, chainId)
            THEN [ok |-> TRUE, address |-> Null, symbol |-> getNativeSymbol(chainId), decimals |-> 18]
            ELSE IF token.found
            THEN [ok |-> TRUE, address |-> token.address,
                  symbol |-> toUpperCase(resolvedSymbol), decimals |-> token.decimals]
            ELSE TokenNotFound

\* approve.ts resolveToken: no native branch
resolveToken_approve(tokenInput, chainId) ==
    IF isAddress(tokenInput)
    THEN [ok |-> TRUE, address |-> tokenInput, symbol |-> Str("TOKEN"), decimals |-> 18]
    ELSE LET normalizedInput == trim(toLowerCase(tokenInput))
             resolvedSymbol == AliasOr(TOKEN_ALIASES_approve, normalizedInput, tokenInput)
             token == getToken(resolvedSymbol, chainId)
         IN IF normalizedInput \in ObjectPrototypeKeys THEN TokenTypeError
            ELSE IF token.found
            THEN [ok |-> TRUE, address |-> token.address,
                  symbol |-> toUpperCase(resolvedSymbol), decimals |-> token.decimals]
            ELSE TokenNotFound

\* the swap resolveToken as it would be if the input were normalised before
\* the address test
resolveToken_swap_normalised(tokenInput, chainId) ==
    LET normalizedInput == trim(toLowerCase(tokenInput))
        resolvedSymbol == AliasOr(TOKEN_ALIASES_swap, normalizedInput, toUpperCase(tokenInput))
        token == getToken(resolvedSymbol, chainId)
    IN IF isAddress(normalizedInput)
       THEN [ok |-> TRUE, address |-> normalizedInput, symbol |-> Str("TOKEN"), decimals |-> 18,
             isNative |-> FALSE]
       ELSE IF normalizedInput \in ObjectPrototypeKeys THEN TokenTypeError
       ELSE IF isNativeToken(resolvedSymbol, chainId)
       THEN IF chainId \notin DOMAIN WRAPPED_NATIVE THEN TokenNotFound
            ELSE [ok |-> TRUE, address |-> WRAPPED_NATIVE[chainId], symbol |-> resolvedSymbol,
                  decimals |-> 18, isNative |-> TRUE]
       ELSE IF token.found
       THEN [ok |-> TRUE, address |-> token.address, symbol |-> resolvedSymbol,
             decimals |-> token.decimals, isNative |-> FALSE]
       ELSE TokenNotFound

\* swap resolveToken: the native asset resolves to its wrapped address
resolveToken_swap(tokenInput, chainId) ==
    IF isAddress(tokenInput)
    THEN [ok |-> TRUE, address |-> tokenInput, symbol |-> Str("TOKEN"), decimals |-> 18, isNative |-> FALSE]
    ELSE LET normalizedInput == trim(toLowerCase(tokenInput))
             resolvedSymbol == AliasOr(TOKEN_ALIASES_swap, normalizedInput, toUpperCase(tokenInput))
             token == getToken(resolvedSymbol, chainId)
         IN IF normalizedInput \in ObjectPrototypeKeys THEN TokenTypeError
            ELSE IF isNativeToken(resolvedSymbol, chainId)
            THEN IF chainId \notin DOMAIN WRAPPED_NATIVE THEN TokenNotFound
                 ELSE [ok |-> TRUE, address |-> WRAPPED_NATIVE[chainId], symbol |-> resolvedSymbol,
                       decimals |-> 18, isNative |-> TRUE]
            ELSE IF token.found
            THEN [ok |-> TRUE, address |-> token.address, symbol |-> resolvedSymbol,
                  decimals |-> token.decimals, isNative |-> FALSE]
            ELSE TokenNotFound

\* ------------------------------------------------------------------- state
VARIABLES
    users,          \* data store: user rows [id, address, deleted]
    contacts,       \* data store: contact rows [userId, name, address, deleted]
    transactions,   \* data store: pending-transaction rows, in creation order
    ioInstance,     \* socket.ts: TRUE once initSocket has run
    events,         \* events emitted to socket rooms, in emission order
    req,            \* the tool invocation in progress (or its result)
    nreq,           \* number of tool invocations so far
    probe,          \* a pure function applied to drawn inputs, with its result
    agentCache,     \* lunark-agent: the cached agent of each user address
    lunarkAgents,   \* lunark-agent: the LunarkAgent instances, in creation order
    message,        \* routes/message: the message request in progress
    payments,       \* data store: payment rows, in creation order
    userBalance,    \* data store: the balance column of the user rows, by user id
    stream          \* lunark-agent: the locals of a streamResponse call and its run

vars == <<users, contacts, transactions, ioInstance, events, req, nreq, probe,
          agentCache, lunarkAgents, message, payments, userBalance, stream>>

\* ------------------------------------------------------- users and contacts
\* user rows are stored with the lower-cased address (routes/user.ts)
ADDR_ALICE == Addr("a1ce")
ADDR_ALICE_CHECKSUM == Addr("A1Ce")
ADDR_CAROL == Addr("cafe")
ADDR_BOB == Addr("b0b0")
ADDR_DAVE == Addr("DaFe")

UserRows == {[id |-> "u1", address |-> ADDR_ALICE, deleted |-> FALSE],
             [id |-> "u2", address |-> ADDR_CAROL, deleted |-> FALSE]}

\* db.user.findUnique({ where: { address } }): the rows with exactly that address
findUser(dbUsers, address) == {u \in dbUsers : u.address = address}

\* chains on which the name service is consulted
ENS_CHAINS == {1, 11155111}

\* what provider.resolveName answers: an address, null, or it throws
EnsOutcomes == {[kind |-> "address", address |-> ADDR_DAVE], [kind |-> "null"], [kind |-> "throws"]}

RecipientUnresolved == [ok |-> FALSE, error |-> "RecipientUnresolved", ensQueried |-> FALSE]

\* resolveRecipient as it would be if the name service were consulted
\* before the contacts
resolveRecipient_ensFirst(recipient, userAddress, chainId, dbUsers, dbContacts, ens) ==
    IF isAddress(recipient)
    THEN {[ok |-> TRUE, address |-> recipient, resolvedFrom |-> Null, ensQueried |-> FALSE]}
    ELSE LET user == findUser(dbUsers, userAddress)
             matching == {c \in dbContacts :
                            /\ \E u \in user : c.userId = u.id
                            /\ ~c.deleted
                            /\ toLowerCase(c.name) = toLowerCase(recipient)}
             asked == endsWith(recipient, Str(".eth")) /\ chainId \in ENS_CHAINS
         IN IF asked /\ ens.kind = "address"
            THEN {[ok |-> TRUE, address |-> ens.address,
                   resolvedFrom |-> <<"ENS">> \o recipient, ensQueried |-> TRUE]}
            ELSE IF matching # {}
            THEN {[ok |-> TRUE, address |-> c.address,
                   resolvedFrom |-> <<"contact">> \o c.name, ensQueried |-> asked] : c \in matching}
            ELSE {[RecipientUnresolved EXCEPT !.ensQueried = asked]}

\* transfer.ts resolveRecipient: the set of results it can return for the
\* store contents and the name-service answer (find() returns the first
\* matching contact in the order the store lists them, which is unspecified).
\* ensQueried records whether provider.resolveName was called.
resolveRecipient(recipient, userAddress, chainId, dbUsers, dbContacts, ens) ==
    IF isAddress(recipient)
    THEN {[ok |-> TRUE, address |-> recipient, resolvedFrom |-> Null, ensQueried |-> FALSE]}
    ELSE LET user == findUser(dbUsers, userAddress)
             matching == {c \in dbContacts :
                            /\ \E u \in user : c.userId = u.id
                            /\ ~c.deleted
                            /\ toLowerCase(c.name) = toLowerCase(recipient)}
         IN IF matching # {}
            THEN {[ok |-> TRUE, address |-> c.address,
                   resolvedFrom |-> <<"contact">> \o c.name, ensQueried |-> FALSE] : c \in matching}
            ELSE IF endsWith(recipient, Str(".eth")) /\ chainId \in ENS_CHAINS
            THEN IF ens.kind = "address"
                 THEN {[ok |-> TRUE, address |-> ens.address,
                        resolvedFrom |-> <<"ENS">> \o recipient, ensQueried |-> TRUE]}
                 ELSE {[RecipientUnresolved EXCEPT !.ensQueried = TRUE]}
            ELSE {RecipientUnresolved}

\* contacts.ts addContactTool: one more row for a known user
AddContactRow(dbContacts, userId, name, address) ==
    dbContacts \cup {[userId |-> userId, name |-> name, address |-> address, deleted |-> FALSE]}

\* contacts.ts deleteContactTool: soft delete of the row found by name
DeleteContactRow(dbContacts, row) ==
    (dbContacts \ {row}) \cup {[row EXCEPT !.deleted = TRUE]}

\* --------------------------------------------------------- spender resolver

\* approve.ts PROTOCOL_ADDRESSES restricted to the chains of the model
PROTOCOL_ADDRESSES ==
    (Str("uniswap") :> (1 :> Addr("68B3") @@ 8453 :> Addr("3fC9")) @@
     Str("aave") :> (1 :> Addr("8787")) @@
     Str("sushiswap") :> (1 :> Addr("D9E1")))

resolveSpender(spender, chainId) ==
    IF isAddress(spender)
    THEN [ok |-> TRUE, address |-> spender, protocol |-> Null]
    ELSE LET lowerSpender == toLowerCase(spender) IN
         IF lowerSpender \in DOMAIN PROTOCOL_ADDRESSES /\ chainId \in DOMAIN PROTOCOL_ADDRESSES[lowerSpender]
         THEN [ok |-> TRUE, address |-> PROTOCOL_ADDRESSES[lowerSpender][chainId], protocol |-> spender]
         ELSE [ok |-> FALSE, error |-> "SpenderUnresolved"]

\* ------------------------------------------------------------ venue table

UNISWAP == [slug |-> Str("uniswap"), name |-> "Uniswap",
            supportedChains |-> {1, 42161, 137, 10, 8453, 56, 43114, 11155111},
            routerChains |-> {1, 42161, 137, 10, 8453, 56, 43114, 11155111},
            quoterChains |-> {1, 42161, 137, 10, 8453, 56, 43114, 11155111}]
SUSHISWAP == [slug |-> Str("sushiswap"), name |-> "SushiSwap",
              supportedChains |-> {1, 42161, 137, 10, 56, 43114},
              routerChains |-> {1, 42161, 137, 10, 56, 43114},
              quoterChains |-> {}]
CURVE == [slug |-> Str("curve"), name |-> "Curve",
          supportedChains |-> {1, 42161, 137, 10, 43114},
          routerChains |-> {1, 42161, 137, 10, 43114},
          quoterChains |-> {}]
PANCAKESWAP == [slug |-> Str("pancakeswap"), name |-> "PancakeSwap",
                supportedChains |-> {56, 1, 42161},
                routerChains |-> {56, 1, 42161},
                quoterChains |-> {}]
TRADERJOE == [slug |-> Str("traderjoe"), name |-> "TraderJoe",
              supportedChains |-> {43114, 42161},
              routerChains |-> {43114, 42161},
              quoterChains |-> {}]

\* DEX_PROTOCOLS in registration order (Object.values order)
DEX_PROTOCOLS == <<UNISWAP, SUSHISWAP, CURVE, PANCAKESWAP, TRADERJOE>>

\* the router address of a venue on a chain
routerAddress(slug, chainId) == <<"router", ToString(chainId)>> \o slug

\* getDex(name): a venue, undefined, or an inherited property that is no venue
getDex(name) ==
    LET lowerName == toLowerCase(name) IN
    IF \E i \in 1..Len(DEX_PROTOCOLS) : DEX_PROTOCOLS[i].slug = lowerName
    THEN [kind |-> "dex",
          dex |-> DEX_PROTOCOLS[CHOOSE i \in 1..Len(DEX_PROTOCOLS) : DEX_PROTOCOLS[i].slug = lowerName]]
    ELSE IF lowerName \in ObjectPrototypeKeys THEN [kind |-> "inherited"]
    ELSE [kind |-> "undefined"]

\* Object.values(DEX_PROTOCOLS).filter(...)
getDexesForChain(chainId) ==
    LET Supports(dex) == chainId \in dex.supportedChains IN SelectSeq(DEX_PROTOCOLS, Supports)

\* FEE_TIERS
FEE_LOW == 500
FEE_MEDIUM == 3000
FEE_HIGH == 10000
\* the order getAllQuotes tries the tiers in
FeeTierOrder == <<FEE_MEDIUM, FEE_LOW, FEE_HIGH>>

DEFAULT_SLIPPAGE_BPS == 50

\* the comparator as it would be for an ascending order
compareQuotes_ascending(a, b) == IF b.amountOut > a.amountOut THEN -1 ELSE 1

\* -------------------------------------------------------- quote ranking
\* the comparator of quotes.sort: 1 when b is better, -1 otherwise (also for ties)
compareQuotes(a, b) == IF b.amountOut > a.amountOut THEN 1 ELSE -1

\* Array.prototype.sort as node 20 (V8) runs it on an array shorter than 64:
\* the leading run is found (and reversed when strictly descending under
\* the comparator), the rest is placed by binary insertion
RECURSIVE CountRun(_, _, _, _)
CountRun(a, idx, isDescending, runLength) ==
    IF idx > Len(a) THEN runLength
    ELSE LET order == compareQuotes(a[idx], a[idx - 1]) IN
         IF (isDescending /\ order >= 0) \/ (~isDescending /\ order < 0) THEN runLength
         ELSE CountRun(a, idx + 1, isDescending, runLength + 1)

ReverseSeq(a) == [i \in 1..Len(a) |-> a[Len(a) + 1 - i]]

CountAndMakeRun(a) ==
    LET isDescending == compareQuotes(a[2], a[1]) < 0
        runLength == CountRun(a, 3, isDescending, 2)
    IN [len |-> runLength,
        arr |-> IF isDescending
                THEN ReverseSeq(SubSeq(a, 1, runLength)) \o SubSeq(a, runLength + 1, Len(a))
                ELSE a]

RECURSIVE BinarySearch(_, _, _, _)
BinarySearch(a, pivot, left, right) ==
    IF left >= right THEN left
    ELSE LET mid == left + ((right - left) \div 2) IN
         IF compareQuotes(pivot, a[mid]) < 0
         THEN BinarySearch(a, pivot, left, mid)
         ELSE BinarySearch(a, pivot, mid + 1, right)

RECURSIVE BinaryInsertionSort(_, _)
BinaryInsertionSort(a, start) ==
    IF start > Len(a) THEN a
    ELSE LET pivot == a[start]
             left == BinarySearch(a, pivot, 1, start)
             moved == SubSeq(a, 1, left - 1) \o <<pivot>> \o SubSeq(a, left, start - 1)
                      \o SubSeq(a, start + 1, Len(a))
         IN BinaryInsertionSort(moved, start + 1)

\* quotes.sort((a, b) => (b.amountOut > a.amountOut ? 1 : -1))
sortQuotes(quotes) ==
    IF Len(quotes) < 2 THEN quotes
    ELSE LET run == CountAndMakeRun(quotes) IN BinaryInsertionSort(run.arr, run.len + 1)

\* ------------------------------------------------------------ slippage
\* the slippage parameter: absent, not a number, or a decimal number of
\* percent given in thousandths (milli = 500 is "0.5")
NoSlippage == [kind |-> "none"]
NaNSlippage == [kind |-> "nan"]
SlippagePercent(milli) == [kind |-> "num", milli |-> milli]

\* slippageInput ? Math.round(parseFloat(slippageInput) * 100) : DEFAULT_SLIPPAGE_BPS
\* (Math.round rounds a half up)
slippageBps(slippageInput) ==
    CASE slippageInput.kind = "none" -> [nan |-> FALSE, bps |-> DEFAULT_SLIPPAGE_BPS]
      [] slippageInput.kind = "nan" -> [nan |-> TRUE, bps |-> 0]
      [] OTHER -> [nan |-> FALSE, bps |-> (slippageInput.milli + 5) \div 10]

\* BigInt division truncates toward zero
bigintDiv(a, b) == IF a >= 0 THEN a \div b ELSE -((-a) \div b)

\* the minimum as it would be if the quotient were rounded up
amountOutMin_roundsUp(amountOut, bps) == bigintDiv(amountOut * (10000 - bps) + 9999, 10000)

\* (bestQuote.amountOut * BigInt(10000 - slippageBps)) / BigInt(10000)
amountOutMin(amountOut, bps) == bigintDiv(amountOut * (10000 - bps), 10000)

\* ------------------------------------------------- chain data provider
\* what a balance, allowance or quote call answers: a value, or it throws
RpcError == [ok |-> FALSE, v |-> 0]
RpcValue(n) == [ok |-> TRUE, v |-> n]
BalanceOutcomes == {RpcValue(n) : n \in 0..MaxBalance} \cup {RpcError}
QuoteOutcomes == {RpcValue(n) : n \in 0..MaxQuote} \cup {RpcError}

\* the amount parameter: a decimal string that ethers.parseUnits accepts
\* (given by its value in base units), or any other string
AmountOf(n) == [kind |-> "num", n |-> n, plain |-> TRUE]
\* a decimal string of the same value in another spelling ("0.0" for "0")
AmountPadded(n) == [kind |-> "num", n |-> n, plain |-> FALSE]
AmountText(str) == [kind |-> "text", text |-> str, plain |-> FALSE]
AmountInputs == {AmountOf(n) : n \in 1..MaxAmount} \cup {AmountText(Str("abc"))}

\* ------------------------------------------------------------- tool calls
Idle == [pc |-> "idle"]

\* what is kept of an invocation once its transaction is built or it has
\* returned: the context, the venue a swap named, the built transaction and
\* what the invocation has done
KeptFields == {"pc", "tool", "userAddress", "chainId", "chatId", "dex", "tokenAddress",
               "fromAddress", "fromNative", "rowsAtEntry", "eventsAtEntry", "created",
               "published", "quoteCalls", "built", "userId", "savedId", "needsApproval", "tx",
               "bal", "allowance", "amountWei", "balanceOf", "amount", "buttonText",
               "ranked", "tier", "toAddress"}
Keep(r) == [f \in (DOMAIN r) \cap KeptFields |-> r[f]]

\* the handler returned { success: false, error }: at is the invocation as
\* it stood when it returned
Fail(r, err) == [pc |-> "done", success |-> FALSE, error |-> err, at |-> Keep(r)]
\* the handler returned { success: true, data }
Succeed(r) == [pc |-> "done", success |-> TRUE, error |-> "none", at |-> Keep(r)]

\* the encoded call of a transaction: the function and its arguments
\* (unlimited: the amount is ethers.MaxUint256)
CallData(fn, target, amount, minOut) ==
    [fn |-> fn, target |-> target, amount |-> amount, minOut |-> minOut, unlimited |-> FALSE]
\* data: '0x'
NoData == CallData("0x", Null, 0, 0)
\* no transaction built yet
NoTx == [to |-> Null, value |-> 0, data |-> NoData]
\* no balance query answered yet
NotAsked == [ok |-> FALSE, v |-> -1]

\* what a handler no longer holds once it goes on: the answers of the balance
\* query and of the allowance query
Forget(r) == [r EXCEPT !.bal = NotAsked, !.allowance = NotAsked]

\* fields every invocation starts with: the context, what the store and the
\* channel held when it was entered, and what it has done so far (records
\* created, pendingTransaction events emitted, quote calls issued, call data
\* built)
NewCall(tool, userAddress, chainId, chatId) ==
    [pc |-> "start", tool |-> tool, userAddress |-> userAddress, chainId |-> chainId,
     chatId |-> chatId, rowsAtEntry |-> Len(transactions), eventsAtEntry |-> Len(events),
     created |-> 0, published |-> 0, quoteCalls |-> 0, built |-> FALSE,
     userId |-> "none", savedId |-> 0, needsApproval |-> FALSE, tx |-> NoTx,
     bal |-> NotAsked, allowance |-> NotAsked, amountWei |-> 0, balanceOf |-> Null]

\* the transaction is built: what the rest of the handler reads (the context,
\* the built transaction, whether an approval is needed) and what it has done
Prepared(r, tx, needsApproval) ==
    [Keep(r) EXCEPT !.pc = "findUser", !.built = TRUE, !.tx = tx, !.needsApproval = needsApproval]

CanInvoke == req.pc = "idle" /\ nreq < MaxRequests

\* the handler's result has been handed back to the agent
Return ==
    /\ req.pc = "done"
    /\ req' = Idle
    /\ UNCHANGED <<users, contacts, transactions, ioInstance, events, nreq, probe,
                   agentCache, lunarkAgents, message, payments, userBalance, stream>>

\* `user:${userAddress.toLowerCase()}`
userRoom(userAddress) == <<"user:">> \o toLowerCase(userAddress)

\* socket.ts initSocket, called by the server's constructor (server.ts 78)
\* before it listens; handlers run without a server never see it
InitSocket ==
    /\ ~ioInstance /\ req.pc = "idle" /\ nreq = 0
    /\ ioInstance' = TRUE
    /\ UNCHANGED <<users, contacts, transactions, events, req, nreq, probe,
                   agentCache, lunarkAgents, message, payments, userBalance, stream>>

\* getIO() and io.to(room).emit(...) inside try/catch: the event is emitted
\* unless the socket server was never initialised or emit throws
EmitOrSwallow(event, emitOk) == IF ioInstance /\ emitOk THEN Append(events, event) ELSE events

\* db.transaction.create as it would be if the handlers wrote a status of
\* their own making
NewTransaction_statusPrepared(r, userId, type) ==
    [id |-> Len(transactions) + 1,
     chatId |-> IF r.chatId = Null THEN <<>> ELSE r.chatId,
     userId |-> userId, type |-> type, status |-> "prepared", chainId |-> r.chainId,
     hash |-> "<null>"]

\* db.user.findUnique + db.transaction.create: the new row
NewTransaction(r, userId, type) ==
    [id |-> Len(transactions) + 1,
     chatId |-> IF r.chatId = Null THEN <<>> ELSE r.chatId,
     userId |-> userId, type |-> type, status |-> "pending", chainId |-> r.chainId,
     hash |-> "<null>"]

\* the await of db.user.findUnique in a handler: 'User not found' when null
FindUserStep ==
    /\ req.pc = "findUser"
    /\ \E readOk \in BOOLEAN :
         req' = IF ~readOk THEN Fail(req, "DataStoreError")
                ELSE IF findUser(users, req.userAddress) = {} THEN Fail(req, "UserNotFound")
                ELSE [Forget(req) EXCEPT !.pc = "persist",
                                 !.userId = (CHOOSE u \in findUser(users, req.userAddress) : TRUE).id]
    /\ UNCHANGED <<users, contacts, transactions, ioInstance, events, nreq, probe,
                   agentCache, lunarkAgents, message, payments, userBalance, stream>>

\* db.transaction.create as it would be with its rejection caught and
\* ignored: the handler goes on to publish with no row saved
PersistStep_swallowsFailure ==
    /\ req.pc = "persist"
    /\ \E writeOk \in BOOLEAN :
         IF writeOk
         THEN /\ transactions' = Append(transactions, NewTransaction(req, req.userId, req.tool))
              /\ req' = [req EXCEPT !.pc = "publish", !.created = @ + 1,
                                    !.savedId = Len(transactions) + 1]
         ELSE /\ transactions' = transactions
              /\ req' = [req EXCEPT !.pc = "publish"]
    /\ UNCHANGED <<users, contacts, ioInstance, events, nreq, probe,
                   agentCache, lunarkAgents, message, payments, userBalance, stream>>

\* db.transaction.create as it would be if the write could take effect and
\* the call still throw: the row is in the store and the request fails
PersistStep_throwsAfterWrite ==
    /\ req.pc = "persist"
    /\ \E writeOk \in BOOLEAN :
         /\ transactions' = Append(transactions, NewTransaction(req, req.userId, req.tool))
         /\ req' = IF writeOk
                   THEN [req EXCEPT !.pc = "publish", !.created = @ + 1,
                                    !.savedId = Len(transactions) + 1]
                   ELSE Fail([req EXCEPT !.created = @ + 1], "PersistenceError")
    /\ UNCHANGED <<users, contacts, ioInstance, events, nreq, probe,
                   agentCache, lunarkAgents, message, payments, userBalance, stream>>

\* the await of db.transaction.create: the row is written, or the write throws
PersistStep ==
    /\ req.pc = "persist"
    /\ \E writeOk \in BOOLEAN :
         IF writeOk
         THEN /\ transactions' = Append(transactions, NewTransaction(req, req.userId, req.tool))
              /\ req' = [req EXCEPT !.pc = "publish", !.created = @ + 1,
                                    !.savedId = Len(transactions) + 1]
         ELSE /\ transactions' = transactions
              /\ req' = Fail(req, "PersistenceError")
    /\ UNCHANGED <<users, contacts, ioInstance, events, nreq, probe,
                   agentCache, lunarkAgents, message, payments, userBalance, stream>>

\* the payload of the 'pendingTransaction' event and the room it is sent to;
\* the swap handler's payload also has needsApproval
pendingTransaction(r) ==
    LET event == [name |-> "pendingTransaction", room |-> userRoom(r.userAddress),
                  id |-> r.savedId, type |-> r.tool, chatId |-> r.chatId]
    IN IF r.tool = "swap" THEN [needsApproval |-> r.needsApproval] @@ event ELSE event

\* the emit as it would be without the try/catch around it: a throw of
\* getIO or of emit reaches the handler's catch and the request fails
PublishStep_propagates ==
    /\ req.pc = "publish"
    /\ \E emitOk \in BOOLEAN :
         /\ events' = EmitOrSwallow(pendingTransaction(req), emitOk)
         /\ req' = IF ioInstance /\ emitOk
                   THEN Succeed([req EXCEPT !.published = @ + 1])
                   ELSE Fail(req, "SocketError")
    /\ UNCHANGED <<users, contacts, transactions, ioInstance, nreq, probe,
                   agentCache, lunarkAgents, message, payments, userBalance, stream>>

\* the emit of 'pendingTransaction' to the user's room, then return success
PublishStep ==
    /\ req.pc = "publish"
    /\ \E emitOk \in BOOLEAN :
         /\ events' = EmitOrSwallow(pendingTransaction(req), emitOk)
         /\ req' = Succeed([req EXCEPT !.published = IF ioInstance /\ emitOk THEN @ + 1 ELSE @])
    /\ UNCHANGED <<users, contacts, transactions, ioInstance, nreq, probe,
                   agentCache, lunarkAgents, message, payments, userBalance, stream>>

\* ---------------------------------------------------------------- transfer

\* transfer.ts NETWORK_NAMES restricted to the chains of the model
NETWORK_NAMES ==
    Str("ethereum") :> 1 @@ Str("eth") :> 1 @@ Str("mainnet") :> 1 @@ Str("base") :> 8453

DigitValue(c) == CHOOSE n \in 0..9 : Str("0123456789")[n + 1] = c

\* parseInt: the value of the leading decimal digits, NaN when there are none
RECURSIVE ParseDigits(_, _)
ParseDigits(str, acc) ==
    IF str = <<>> \/ Head(str) \notin Digits THEN acc
    ELSE ParseDigits(Tail(str), 10 * acc + DigitValue(Head(str)))
parseInt(str) ==
    IF str = <<>> \/ Head(str) \notin Digits THEN [nan |-> TRUE, n |-> 0]
    ELSE [nan |-> FALSE, n |-> ParseDigits(str, 0)]

\* NETWORK_NAMES[networkLower] || parseInt(network)
targetChainId(network) ==
    IF toLowerCase(network) \in DOMAIN NETWORK_NAMES
    THEN [nan |-> FALSE, n |-> NETWORK_NAMES[toLowerCase(network)]]
    ELSE parseInt(network)

\* transfer.ts 148-205: the handler is entered; the user check and the
\* network switch, up to the first await
InvokeTransfer(to, amount, token, network, userAddress, chainId, chatId) ==
    /\ CanInvoke
    /\ nreq' = nreq + 1
    /\ \E emitOk \in BOOLEAN :
         LET r == [to |-> to, amount |-> amount, token |-> token, network |-> network]
                  @@ NewCall("transfer", userAddress, chainId, chatId)
             target == targetChainId(network)
             switches == network # Null /\ network # <<>> /\ ~target.nan /\ target.n # chainId
         IN IF userAddress = Null \/ userAddress = <<>>
            THEN /\ req' = Fail(r, "NoUserAddress")
                 /\ events' = events
            ELSE IF ~switches
            THEN /\ req' = [r EXCEPT !.pc = "resolve"]
                 /\ events' = events
            ELSE IF target.n \notin NETWORKS
            THEN /\ req' = Fail(r, "UnknownNetwork")
                 /\ events' = events
            ELSE /\ req' = [r EXCEPT !.pc = "resolve", !.chainId = target.n]
                 /\ events' = EmitOrSwallow(
                        [name |-> "networkSwitch", room |-> userRoom(userAddress), id |-> 0,
                         type |-> "transfer", chatId |-> chatId], emitOk)
    /\ UNCHANGED <<users, contacts, transactions, ioInstance, probe,
                   agentCache, lunarkAgents, message, payments, userBalance, stream>>

\* transfer.ts 207-215: resolveRecipient (store read, name service) and resolveToken
TransferResolve ==
    /\ req.pc = "resolve" /\ req.tool = "transfer"
    /\ \E readOk \in BOOLEAN, ens \in EnsOutcomes :
       \E rcpt \in resolveRecipient(req.to, req.userAddress, req.chainId, users, contacts, ens) :
         LET tokenInfo == resolveToken_transfer(req.token, req.chainId) IN
         req' = IF ~readOk /\ ~isAddress(req.to) THEN Fail(req, "DataStoreError")
                ELSE IF ~rcpt.ok THEN Fail(req, rcpt.error)
                ELSE IF ~tokenInfo.ok THEN Fail(req, tokenInfo.error)
                ELSE [pc |-> "balance", recipientAddress |-> rcpt.address,
                      resolvedFrom |-> rcpt.resolvedFrom, tokenAddress |-> tokenInfo.address] @@ req
    /\ UNCHANGED <<users, contacts, transactions, ioInstance, events, nreq, probe,
                   agentCache, lunarkAgents, message, payments, userBalance, stream>>

\* the transfer handler as it would be without the comparison of the
\* balance with the amount
TransferBalance_unchecked ==
    /\ req.pc = "balance" /\ req.tool = "transfer"
    /\ \E balance \in BalanceOutcomes :
         LET isToken == req.tokenAddress # Null
             amountWei == req.amount.n
             asked == [req EXCEPT !.bal = balance, !.amountWei = amountWei,
                                  !.balanceOf = IF isToken THEN req.tokenAddress ELSE <<"native">>]
         IN req' = IF req.amount.kind # "num" THEN Fail(req, "InvalidAmount")
                   ELSE Prepared(asked,
                            IF isToken
                            THEN [to |-> req.tokenAddress, value |-> 0,
                                  data |-> CallData("transfer", req.recipientAddress, amountWei, 0)]
                            ELSE [to |-> req.recipientAddress, value |-> amountWei, data |-> NoData],
                            FALSE)
    /\ UNCHANGED <<users, contacts, transactions, ioInstance, events, nreq, probe,
                   agentCache, lunarkAgents, message, payments, userBalance, stream>>

\* transfer.ts 228-296: parse the amount, query the balance of the token (or
\* the native balance), reject when it is below the amount, build the transaction.
\* A balance query that throws is ignored.  bal is the answer of the query.
TransferBalance ==
    /\ req.pc = "balance" /\ req.tool = "transfer"
    /\ \E balance \in BalanceOutcomes :
         LET isToken == req.tokenAddress # Null
             amountWei == req.amount.n
             asked == [req EXCEPT !.bal = balance, !.amountWei = amountWei,
                                  !.balanceOf = IF isToken THEN req.tokenAddress ELSE <<"native">>]
         IN req' = IF req.amount.kind # "num" THEN Fail(req, "InvalidAmount")
                   ELSE IF balance.ok /\ balance.v < amountWei THEN Fail(asked, "InsufficientBalance")
                   ELSE Prepared(asked,
                            IF isToken
                            THEN [to |-> req.tokenAddress, value |-> 0,
                                  data |-> CallData("transfer", req.recipientAddress, amountWei, 0)]
                            ELSE [to |-> req.recipientAddress, value |-> amountWei, data |-> NoData],
                            FALSE)
    /\ UNCHANGED <<users, contacts, transactions, ioInstance, events, nreq, probe,
                   agentCache, lunarkAgents, message, payments, userBalance, stream>>

\* ----------------------------------------------------------------- approve

\* approve.ts 112-148: the handler is entered; the user check,
\* resolveToken, resolveSpender
InvokeApprove(token, spender, amount, userAddress, chainId, chatId) ==
    /\ CanInvoke
    /\ nreq' = nreq + 1
    /\ LET r == [token |-> token, spender |-> spender, amount |-> amount]
                @@ NewCall("approve", userAddress, chainId, chatId)
           tokenInfo == resolveToken_approve(token, chainId)
           spenderInfo == resolveSpender(spender, chainId)
       IN req' = IF userAddress = Null \/ userAddress = <<>> THEN Fail(r, "NoUserAddress")
                 ELSE IF ~tokenInfo.ok THEN Fail(r, tokenInfo.error)
                 ELSE IF ~spenderInfo.ok THEN Fail(r, spenderInfo.error)
                 ELSE [pc |-> "build", tokenAddress |-> tokenInfo.address,
                       spenderAddress |-> spenderInfo.address,
                       protocol |-> spenderInfo.protocol] @@ r
    /\ UNCHANGED <<users, contacts, transactions, ioInstance, events, probe,
                   agentCache, lunarkAgents, message, payments, userBalance, stream>>

\* the amount string as it is displayed when it is neither symbolic form
AsGiven == <<"amount">>

\* approvalAmount as it would be if the revoke form were displayed as given
approvalAmount_revokeAsGiven(amount) ==
    LET lower == IF amount.kind = "text" THEN toLowerCase(amount.text) ELSE <<>>
    IN IF amount.kind = "text" /\ lower \in {Str("unlimited"), Str("max")}
       THEN [ok |-> TRUE, amountWei |-> 0, unlimited |-> TRUE, displayAmount |-> Str("unlimited")]
       ELSE IF (amount.kind = "num" /\ amount.n = 0 /\ amount.plain)
               \/ (amount.kind = "text" /\ lower = Str("revoke"))
       THEN [ok |-> TRUE, amountWei |-> 0, unlimited |-> FALSE, displayAmount |-> AsGiven]
       ELSE IF amount.kind = "num"
       THEN [ok |-> TRUE, amountWei |-> amount.n, unlimited |-> FALSE, displayAmount |-> AsGiven]
       ELSE [ok |-> FALSE, amountWei |-> 0, unlimited |-> FALSE, displayAmount |-> AsGiven]

\* approve.ts 155-168: amountWei and displayAmount; unlimited stands for
\* ethers.MaxUint256 (amountWei is then immaterial); parseUnits throws on a
\* string that is no decimal number
approvalAmount(amount) ==
    LET lower == IF amount.kind = "text" THEN toLowerCase(amount.text) ELSE <<>>
    IN IF amount.kind = "text" /\ lower \in {Str("unlimited"), Str("max")}
       THEN [ok |-> TRUE, amountWei |-> 0, unlimited |-> TRUE, displayAmount |-> Str("unlimited")]
       ELSE IF (amount.kind = "num" /\ amount.n = 0 /\ amount.plain)
               \/ (amount.kind = "text" /\ lower = Str("revoke"))
       THEN [ok |-> TRUE, amountWei |-> 0, unlimited |-> FALSE, displayAmount |-> Str("0 (revoke)")]
       ELSE IF amount.kind = "num"
       THEN [ok |-> TRUE, amountWei |-> amount.n, unlimited |-> FALSE, displayAmount |-> AsGiven]
       ELSE [ok |-> FALSE, amountWei |-> 0, unlimited |-> FALSE, displayAmount |-> AsGiven]

\* approve.ts 195-198: `Revoke ${tokenSymbol} approval` or
\* `Approve ${displayAmount} ${tokenSymbol}`
buttonText(displayAmount) ==
    IF displayAmount = Str("0 (revoke)")
    THEN [verb |-> "Revoke", amount |-> <<>>]
    ELSE [verb |-> "Approve", amount |-> displayAmount]

\* approve.ts 155-181: the approval amount and the approve call
ApproveBuild ==
    /\ req.pc = "build" /\ req.tool = "approve"
    /\ LET approval == approvalAmount(req.amount)
       IN req' = IF ~approval.ok THEN Fail(req, "InvalidAmount")
                 ELSE [buttonText |-> buttonText(approval.displayAmount)]
                      @@ Prepared(req, [to |-> req.tokenAddress, value |-> 0,
                                        data |-> [CallData("approve", req.spenderAddress,
                                                           approval.amountWei, 0)
                                                    EXCEPT !.unlimited = approval.unlimited]],
                                  FALSE)
    /\ UNCHANGED <<users, contacts, transactions, ioInstance, events, nreq, probe,
                   agentCache, lunarkAgents, message, payments, userBalance, stream>>

\* ---------------------------------------------------------- getAllQuotes
\* getAllQuotes under way: the venue (di) and fee tier (ti) of the next
\* call, the quotes pushed so far, and the calls answered so far
NoQuoting == [di |-> 1, ti |-> 1, quotes |-> <<>>, qlog |-> <<>>]

\* getAllQuotes as it would be if every answered quote were kept, a zero
\* amount included
QuoteStep_keepsZero(chainId, q, out) ==
    LET dexes == getDexesForChain(chainId)
        dex == dexes[q.di]
        isV3 == dex.slug = Str("uniswap") /\ chainId \in dex.quoterChains
        isV2 == ~isV3 /\ chainId \in dex.routerChains
        called == isV3 \/ isV2
        positive == called /\ out.ok /\ out.v > 0
        venueDone == ~isV3 \/ positive \/ q.ti = Len(FeeTierOrder)
    IN [di |-> IF venueDone THEN q.di + 1 ELSE q.di,
        ti |-> IF venueDone THEN 1 ELSE q.ti + 1,
        quotes |-> IF called /\ out.ok /\ venueDone
                   THEN Append(q.quotes, [slug |-> dex.slug, amountOut |-> out.v])
                   ELSE q.quotes,
        qlog |-> IF called
                 THEN Append(q.qlog, [slug |-> dex.slug,
                                      fee |-> IF isV3 THEN FeeTierOrder[q.ti] ELSE 0,
                                      out |-> out])
                 ELSE q.qlog]

\* getAllQuotes as it would be without the break: every tier is asked and
\* the answer of the last one stands
QuoteStep_triesEveryTier(chainId, q, out) ==
    LET dexes == getDexesForChain(chainId)
        dex == dexes[q.di]
        isV3 == dex.slug = Str("uniswap") /\ chainId \in dex.quoterChains
        isV2 == ~isV3 /\ chainId \in dex.routerChains
        called == isV3 \/ isV2
        positive == called /\ out.ok /\ out.v > 0
        venueDone == ~isV3 \/ q.ti = Len(FeeTierOrder)
    IN [di |-> IF venueDone THEN q.di + 1 ELSE q.di,
        ti |-> IF venueDone THEN 1 ELSE q.ti + 1,
        quotes |-> IF positive /\ venueDone
                   THEN Append(q.quotes, [slug |-> dex.slug, amountOut |-> out.v])
                   ELSE q.quotes,
        qlog |-> IF called
                 THEN Append(q.qlog, [slug |-> dex.slug,
                                      fee |-> IF isV3 THEN FeeTierOrder[q.ti] ELSE 0,
                                      out |-> out])
                 ELSE q.qlog]

\* getAllQuotes 474-508, one awaited quote call answered with out: the
\* venues of the chain in registration order; uniswap is asked tier by tier
\* until a tier answers a positive amount, every other venue once; a call
\* that throws counts as null
QuoteStep(chainId, q, out) ==
    LET dexes == getDexesForChain(chainId)
        dex == dexes[q.di]
        isV3 == dex.slug = Str("uniswap") /\ chainId \in dex.quoterChains
        isV2 == ~isV3 /\ chainId \in dex.routerChains
        called == isV3 \/ isV2
        positive == called /\ out.ok /\ out.v > 0
        venueDone == ~isV3 \/ positive \/ q.ti = Len(FeeTierOrder)
    IN [di |-> IF venueDone THEN q.di + 1 ELSE q.di,
        ti |-> IF venueDone THEN 1 ELSE q.ti + 1,
        quotes |-> IF positive /\ venueDone
                   THEN Append(q.quotes, [slug |-> dex.slug, amountOut |-> out.v])
                   ELSE q.quotes,
        qlog |-> IF called
                 THEN Append(q.qlog, [slug |-> dex.slug,
                                      fee |-> IF isV3 THEN FeeTierOrder[q.ti] ELSE 0,
                                      out |-> out])
                 ELSE q.qlog]

\* the loop over the venues has ended
QuotesDone(chainId, q) == q.di > Len(getDexesForChain(chainId))

\* -------------------------------------------------------------------- swap
\* the swap handler as it would be if it told a swap of a token for itself
\* by the symbols
InvokeSwap_comparesSymbols(fromToken, toToken, amount, dex, slippage, userAddress, chainId, chatId) ==
    /\ CanInvoke
    /\ nreq' = nreq + 1
    /\ LET r == [fromToken |-> fromToken, toToken |-> toToken, amount |-> amount,
                 dex |-> dex, slippage |-> slippage]
                @@ NewCall("swap", userAddress, chainId, chatId)
           fromInfo == resolveToken_swap(fromToken, chainId)
           toInfo == resolveToken_swap(toToken, chainId)
           resolved == [fromAddress |-> fromInfo.address, fromNative |-> fromInfo.isNative,
                        toAddress |-> toInfo.address, toNative |-> toInfo.isNative] @@ r
       IN req' = IF userAddress = Null \/ userAddress = <<>> THEN Fail(r, "NoUserAddress")
                 ELSE IF TokenTypeError \in {fromInfo, toInfo} THEN Fail(r, "TypeError")
                 ELSE IF ~fromInfo.ok THEN Fail(r, "TokenNotFound")
                 ELSE IF ~toInfo.ok THEN Fail(r, "TokenNotFound")
                 ELSE IF toLowerCase(fromInfo.symbol) = toLowerCase(toInfo.symbol)
                 THEN Fail(resolved, "SameToken")
                 ELSE IF amount.kind # "num" THEN Fail(resolved, "InvalidAmount")
                 ELSE [pc |-> "balance", amountIn |-> amount.n,
                       slippageBps |-> slippageBps(slippage),
                       q |-> NoQuoting, best |-> [slug |-> <<>>, amountOut |-> 0],
                       amountOutMin |-> 0] @@ resolved
    /\ UNCHANGED <<users, contacts, transactions, ioInstance, events, probe,
                   agentCache, lunarkAgents, message, payments, userBalance, stream>>

\* swap handler 627-687: the handler is entered; the user check, token
\* resolution, the same-token check, the amount and the slippage
InvokeSwap(fromToken, toToken, amount, dex, slippage, userAddress, chainId, chatId) ==
    /\ CanInvoke
    /\ nreq' = nreq + 1
    /\ LET r == [fromToken |-> fromToken, toToken |-> toToken, amount |-> amount,
                 dex |-> dex, slippage |-> slippage]
                @@ NewCall("swap", userAddress, chainId, chatId)
           fromInfo == resolveToken_swap(fromToken, chainId)
           toInfo == resolveToken_swap(toToken, chainId)
           resolved == [fromAddress |-> fromInfo.address, fromNative |-> fromInfo.isNative,
                        toAddress |-> toInfo.address, toNative |-> toInfo.isNative] @@ r
       IN req' = IF userAddress = Null \/ userAddress = <<>> THEN Fail(r, "NoUserAddress")
                 ELSE IF TokenTypeError \in {fromInfo, toInfo} THEN Fail(r, "TypeError")
                 ELSE IF ~fromInfo.ok THEN Fail(r, "TokenNotFound")
                 ELSE IF ~toInfo.ok THEN Fail(r, "TokenNotFound")
                 ELSE IF toLowerCase(fromInfo.address) = toLowerCase(toInfo.address)
                 THEN Fail(resolved, "SameToken")
                 ELSE IF amount.kind # "num" THEN Fail(resolved, "InvalidAmount")
                 ELSE [pc |-> "balance", amountIn |-> amount.n,
                       slippageBps |-> slippageBps(slippage),
                       q |-> NoQuoting, best |-> [slug |-> <<>>, amountOut |-> 0],
                       amountOutMin |-> 0] @@ resolved
    /\ UNCHANGED <<users, contacts, transactions, ioInstance, events, probe,
                   agentCache, lunarkAgents, message, payments, userBalance, stream>>

\* buildSwapTransaction as it would be if only the V2 branch set the value
buildSwapTransaction_valueOnV2Only(slug, chainId, fromNative, toNative, toAddress, amountIn, minOut, recipient) ==
    [to |-> routerAddress(slug, chainId),
     value |-> IF fromNative /\ slug # Str("uniswap") THEN amountIn ELSE 0,
     data |-> IF slug = Str("uniswap")
              THEN [fee |-> FEE_MEDIUM]
                   @@ CallData("exactInputSingle", IF toNative THEN <<"ZeroAddress">> ELSE recipient,
                               amountIn, minOut)
              ELSE IF fromNative THEN CallData("swapExactETHForTokens", recipient, 0, minOut)
              ELSE IF toNative THEN CallData("swapExactTokensForETH", recipient, amountIn, minOut)
              ELSE CallData("swapExactTokensForTokens", recipient, amountIn, minOut)]

\* buildSwapTransaction: the single-hop call for uniswap, else one of the
\* three path calls; value is the amount when the input side is native
buildSwapTransaction(slug, chainId, fromNative, toNative, toAddress, amountIn, minOut, recipient) ==
    [to |-> routerAddress(slug, chainId),
     value |-> IF fromNative THEN amountIn ELSE 0,
     data |-> IF slug = Str("uniswap")
              THEN [fee |-> FEE_MEDIUM]
                   @@ CallData("exactInputSingle", IF toNative THEN <<"ZeroAddress">> ELSE recipient,
                               amountIn, minOut)
              ELSE IF fromNative THEN CallData("swapExactETHForTokens", recipient, 0, minOut)
              ELSE IF toNative THEN CallData("swapExactTokensForETH", recipient, amountIn, minOut)
              ELSE CallData("swapExactTokensForTokens", recipient, amountIn, minOut)]

\* swap handler 732-768 (and 770 for a native input): what follows once
\* getAllQuotes has returned ranked: the venue filter, the no-liquidity
\* check, the best quote and its slippage bound; then the allowance query for
\* a token input, or the built transaction for a native one
AfterQuotes(r, ranked) ==
    LET Wanted(q) == q.slug = r.dex
        quotes == IF r.dex # Null /\ r.dex # <<>> THEN SelectSeq(ranked, Wanted) ELSE ranked
        bestQuote == quotes[1]
        minOut == amountOutMin(bestQuote.amountOut, r.slippageBps.bps)
        \* what getAllQuotes answered and at which tier the fee-tier venue quoted
        FeeTierCalls == {i \in DOMAIN r.q.qlog : r.q.qlog[i].fee # 0}
        lastTier == r.q.qlog[CHOOSE i \in FeeTierCalls : \A k \in FeeTierCalls : k <= i]
        seen == [ranked |-> [i \in DOMAIN ranked |-> ranked[i].slug],
                 tier |-> IF FeeTierCalls # {} /\ lastTier.out.ok /\ lastTier.out.v > 0
                          THEN lastTier.fee ELSE 0] @@ r
        quoted == [seen EXCEPT !.q = NoQuoting, !.best = bestQuote, !.amountOutMin = minOut]
    IN IF Len(quotes) = 0 THEN Fail(seen, "NoLiquidity")
       ELSE IF r.slippageBps.nan THEN Fail(seen, "RangeError")
       ELSE IF ~r.fromNative THEN [quoted EXCEPT !.pc = "allowance"]
       ELSE IF minOut < 0 THEN Fail(quoted, "BuildError")
       ELSE Prepared(quoted,
                     buildSwapTransaction(bestQuote.slug, r.chainId, r.fromNative, r.toNative,
                                          r.toAddress, r.amountIn, minOut, r.userAddress),
                     FALSE)

\* the swap preflight as it would be with <= in place of <
SwapBalance_rejectsEqual ==
    /\ req.pc = "balance" /\ req.tool = "swap"
    /\ \E balance \in BalanceOutcomes :
         LET asked == [req EXCEPT !.bal = balance, !.amountWei = req.amountIn,
                                  !.balanceOf = IF req.fromNative THEN <<"native">> ELSE req.fromAddress]
             named == req.dex # Null /\ req.dex # <<>>
             dex == getDex(req.dex)
         IN req' = IF ~balance.ok THEN Fail(asked, "RpcError")
                   ELSE IF balance.v <= req.amountIn THEN Fail(asked, "InsufficientBalance")
                   ELSE IF named /\ dex.kind = "undefined" THEN Fail(asked, "UnsupportedVenue")
                   ELSE IF named /\ dex.kind = "inherited" THEN Fail(asked, "TypeError")
                   ELSE IF named /\ req.chainId \notin dex.dex.supportedChains
                   THEN Fail(asked, "UnsupportedVenue")
                   ELSE IF getDexesForChain(req.chainId) = <<>> THEN AfterQuotes(asked, <<>>)
                   ELSE [asked EXCEPT !.pc = "quoting"]
    /\ UNCHANGED <<users, contacts, transactions, ioInstance, events, nreq, probe,
                   agentCache, lunarkAgents, message, payments, userBalance, stream>>

\* swap handler 689-730: the answer of the balance query (native or token);
\* a query that throws fails the request; then the venue check, and the
\* first quote call is under way
SwapBalance ==
    /\ req.pc = "balance" /\ req.tool = "swap"
    /\ \E balance \in BalanceOutcomes :
         LET asked == [req EXCEPT !.bal = balance, !.amountWei = req.amountIn,
                                  !.balanceOf = IF req.fromNative THEN <<"native">> ELSE req.fromAddress]
             named == req.dex # Null /\ req.dex # <<>>
             dex == getDex(req.dex)
         IN req' = IF ~balance.ok THEN Fail(asked, "RpcError")
                   ELSE IF balance.v < req.amountIn THEN Fail(asked, "InsufficientBalance")
                   ELSE IF named /\ dex.kind = "undefined" THEN Fail(asked, "UnsupportedVenue")
                   ELSE IF named /\ dex.kind = "inherited" THEN Fail(asked, "TypeError")
                   ELSE IF named /\ req.chainId \notin dex.dex.supportedChains
                   THEN Fail(asked, "UnsupportedVenue")
                   ELSE IF getDexesForChain(req.chainId) = <<>> THEN AfterQuotes(asked, <<>>)
                   ELSE [asked EXCEPT !.pc = "quoting"]
    /\ UNCHANGED <<users, contacts, transactions, ioInstance, events, nreq, probe,
                   agentCache, lunarkAgents, message, payments, userBalance, stream>>

\* swap handler 726: one more quote call of getAllQuotes is answered; after
\* the last one the quotes are ranked and the handler goes on
SwapQuoteCall ==
    /\ req.pc = "quoting" /\ req.tool = "swap"
    /\ \E out \in QuoteOutcomes :
         LET q == QuoteStep(req.chainId, req.q, out)
             after == [Forget(req) EXCEPT !.q = q, !.quoteCalls = Len(q.qlog)]
         IN req' = IF QuotesDone(req.chainId, q)
                   THEN AfterQuotes(after, sortQuotes(q.quotes))
                   ELSE after
    /\ UNCHANGED <<users, contacts, transactions, ioInstance, events, nreq, probe,
                   agentCache, lunarkAgents, message, payments, userBalance, stream>>

\* swap handler 752-768: the answer of the allowance query; a query that
\* throws fails the request; then the transaction is built
SwapAllowance ==
    /\ req.pc = "allowance" /\ req.tool = "swap"
    /\ \E currentAllowance \in BalanceOutcomes :
         LET r == [Forget(req) EXCEPT !.allowance = currentAllowance] IN
         req' = IF ~currentAllowance.ok THEN Fail(r, "RpcError")
                ELSE IF r.amountOutMin < 0 THEN Fail(r, "BuildError")
                ELSE Prepared(r,
                         buildSwapTransaction(r.best.slug, r.chainId, r.fromNative, r.toNative,
                                              r.toAddress, r.amountIn, r.amountOutMin, r.userAddress),
                         currentAllowance.v < r.amountIn)
    /\ UNCHANGED <<users, contacts, transactions, ioInstance, events, nreq, probe,
                   agentCache, lunarkAgents, message, payments, userBalance, stream>>

\* ------------------------------------------------------- the preparation run
NoProbe == [fn |-> "none"]

\* agentCache = new Map(): no agent is cached for any address
NoAgents == {}

\* no message request is being served
NoMessage == [pc |-> "none"]

\* streamResponse has not been called
NoStream == [pc |-> "none"]

ChatIds == {Str("c1")}

\* the inputs of the tool calls
UserInputs == {ADDR_ALICE, ADDR_ALICE_CHECKSUM, Null}
ToInputs == {ADDR_BOB, Str("bob"), Str("zed.eth")}
TransferTokenInputs == {Null, Str("usd"), Str("zed")}
NetworkInputs == {Null, Str("Base"), Str("999"), Str("mars")}
ApproveTokenInputs == {Str("usdc"), Str("zed")}
SpenderInputs == {Str("Uniswap"), ADDR_BOB, Str("zed")}
ApproveAmountInputs ==
    {AmountOf(0), AmountPadded(0), AmountOf(1), AmountText(Str("unlimited")), AmountText(Str("MAX")),
     AmountText(Str("Revoke")), AmountText(Str("abc"))}
SwapTokenInputs == {Str("eth"), Str("usdc"), Str("zed")}
VenueInputs == {Null, Str("uniswap"), Str("Uniswap"), Str("sushiswap"), Str("zed"), Str("constructor")}
SlippageInputs == {NoSlippage, SlippagePercent(200000), NaNSlippage}
\* the chain the swap calls are made on (one venue, Uniswap)
SwapChains == {8453}

Init ==
    /\ users = UserRows
    /\ contacts = {[userId |-> "u1", name |-> Str("Bob"), address |-> ADDR_BOB, deleted |-> FALSE]}
    /\ transactions = <<>>
    /\ ioInstance = FALSE
    /\ events = <<>>
    /\ req = Idle
    /\ nreq = 0
    /\ probe = NoProbe
    /\ agentCache = NoAgents
    /\ lunarkAgents = <<>>
    /\ message = NoMessage
    /\ payments = <<>>
    /\ userBalance = [u \in {"u1", "u2"} |-> 0]
    /\ stream = NoStream

TransferCall ==
    /\ CanInvoke
    /\ \E to \in ToInputs, amount \in AmountInputs, token \in TransferTokenInputs,
       network \in NetworkInputs, userAddress \in UserInputs, chainId \in Chains, chatId \in ChatIds :
        InvokeTransfer(to, amount, token, network, userAddress, chainId, chatId)

ApproveCall ==
    /\ CanInvoke
    /\ \E token \in ApproveTokenInputs, spender \in SpenderInputs, amount \in ApproveAmountInputs,
       userAddress \in UserInputs, chainId \in Chains, chatId \in ChatIds :
        InvokeApprove(token, spender, amount, userAddress, chainId, chatId)

SwapCall ==
    /\ CanInvoke
    /\ \E fromToken \in SwapTokenInputs, toToken \in SwapTokenInputs, amount \in AmountInputs,
       dex \in VenueInputs, slippage \in SlippageInputs, userAddress \in UserInputs,
       chainId \in SwapChains, chatId \in ChatIds :
        InvokeSwap(fromToken, toToken, amount, dex, slippage, userAddress, chainId, chatId)

Next ==
    \/ InitSocket \/ Return
    \/ TransferCall \/ TransferResolve \/ TransferBalance
    \/ ApproveCall \/ ApproveBuild
    \/ SwapCall \/ SwapBalance \/ SwapQuoteCall \/ SwapAllowance
    \/ FindUserStep \/ PersistStep \/ PublishStep

Spec == Init /\ [][Next]_vars

\* ------------------------------------------------- getAllQuotes on its own
\* largest amountOut of the best quote the slippage bound is applied to
MaxAmountOut == 12

\* chains getAllQuotes is run for: four venues, one venue, five venues, none
QuoteChains == {1, 8453, 42161, 250}

\* no quote call is awaited
NoCall == [slug |-> Null, fee |-> 0, answers |-> FALSE]

\* getAllQuotes 463-472 is entered; with no venue on the chain it returns []
GetAllQuotesCall ==
    /\ probe = NoProbe
    /\ \E chainId \in QuoteChains :
         probe' = [fn |-> "getAllQuotes", chainId |-> chainId, q |-> NoQuoting,
                   inflight |-> NoCall,
                   returned |-> QuotesDone(chainId, NoQuoting), result |-> <<>>]
    /\ UNCHANGED <<users, contacts, transactions, ioInstance, events, req, nreq,
                   agentCache, lunarkAgents, message, payments, userBalance, stream>>

\* getAllQuotes 478-485 and 490-496: the next quote call is made, for the
\* venue and the fee tier the loops stand at, and awaited; the node answers
\* it (with a value or an error) or never does
GetAllQuotesStart ==
    /\ probe.fn = "getAllQuotes" /\ ~probe.returned /\ probe.inflight = NoCall
    /\ \E answers \in BOOLEAN :
         LET dex == getDexesForChain(probe.chainId)[probe.q.di]
             isV3 == dex.slug = Str("uniswap") /\ probe.chainId \in dex.quoterChains
         IN probe' = [probe EXCEPT !.inflight = [slug |-> dex.slug,
                                                 fee |-> IF isV3 THEN FeeTierOrder[probe.q.ti] ELSE 0,
                                                 answers |-> answers]]
    /\ UNCHANGED <<users, contacts, transactions, ioInstance, events, req, nreq,
                   agentCache, lunarkAgents, message, payments, userBalance, stream>>

\* getAllQuotes 474-513: the awaited quote call is answered; after the last
\* one the quotes are sorted and returned
GetAllQuotesStep ==
    /\ probe.fn = "getAllQuotes" /\ ~probe.returned
    /\ probe.inflight # NoCall /\ probe.inflight.answers
    /\ \E out \in QuoteOutcomes :
         LET q == QuoteStep(probe.chainId, probe.q, out)
             over == QuotesDone(probe.chainId, q)
         IN probe' = [probe EXCEPT !.q = q, !.inflight = NoCall, !.returned = over,
                                   !.result = IF over THEN sortQuotes(q.quotes) ELSE <<>>]
    /\ UNCHANGED <<users, contacts, transactions, ioInstance, events, req, nreq,
                   agentCache, lunarkAgents, message, payments, userBalance, stream>>

NextQuotes == GetAllQuotesCall \/ GetAllQuotesStart \/ GetAllQuotesStep

SpecQuotes == Init /\ [][NextQuotes]_vars

\* every step of getAllQuotes that can be taken is taken in the end: the
\* event loop resumes the function when an awaited call settles
SpecQuotesFair == SpecQuotes /\ WF_vars(NextQuotes)

\* ------------------------------------------------- the slippage arithmetic
\* slippage parameters, in thousandths of a percent ("0.5" is 500)
SlippageMillis == {0, 10, 500, 1000, 2500, 33330, 50000, 99990, 100000, 150000}

\* a best quote and a slippage parameter at swap handler 683 and 744
InitSlippage ==
    /\ users = UserRows
    /\ contacts = {}
    /\ transactions = <<>>
    /\ ioInstance = FALSE
    /\ events = <<>>
    /\ req = Idle
    /\ nreq = 0
    /\ probe \in [fn : {"amountOutMin"}, amountOut : 1..MaxAmountOut,
                  slippage : {SlippagePercent(m) : m \in SlippageMillis} \cup {NoSlippage},
                  applied : {FALSE}, bps : {0}, result : {0}]
    /\ agentCache = NoAgents
    /\ lunarkAgents = <<>>
    /\ message = NoMessage
    /\ payments = <<>>
    /\ userBalance = [u \in {"u1", "u2"} |-> 0]
    /\ stream = NoStream

\* swap handler 683 and 744: slippageBps, then amountOutMin
ApplySlippage ==
    /\ probe.fn = "amountOutMin" /\ ~probe.applied
    /\ LET bps == slippageBps(probe.slippage).bps
       IN probe' = [probe EXCEPT !.applied = TRUE, !.bps = bps,
                                 !.result = amountOutMin(probe.amountOut, bps)]
    /\ UNCHANGED <<users, contacts, transactions, ioInstance, events, req, nreq,
                   agentCache, lunarkAgents, message, payments, userBalance, stream>>

\* swap handler 757-766: the transaction is built for the best quote's venue
\* with the bound just computed; the venue is any venue of the chain, and at
\* most one of the two tokens is native (two native tokens have one address
\* and are refused at 672)
BuildSwapCall ==
    /\ probe.fn = "amountOutMin" /\ probe.applied /\ probe.result >= 0
    /\ \E chainId \in {8453, 42161}, fromNative \in BOOLEAN, toNative \in BOOLEAN,
          amountIn \in 1..MaxAmount :
         /\ ~(fromNative /\ toNative)
         /\ \E d \in DOMAIN getDexesForChain(chainId) :
              LET dex == getDexesForChain(chainId)[d] IN
              probe' = [fn |-> "buildSwapTransaction", slug |-> dex.slug, chainId |-> chainId,
                        fromNative |-> fromNative, toNative |-> toNative,
                        amountIn |-> amountIn, amountOutMin |-> probe.result,
                        tx |-> buildSwapTransaction(dex.slug, chainId, fromNative, toNative,
                                                    Addr("8335"), amountIn, probe.result,
                                                    ADDR_ALICE)]
    /\ UNCHANGED <<users, contacts, transactions, ioInstance, events, req, nreq,
                   agentCache, lunarkAgents, message, payments, userBalance, stream>>

SpecSlippage == InitSlippage /\ [][ApplySlippage \/ BuildSwapCall]_vars

\* ------------------------------------------------- the resolvers on their own
ADDR_BAD_CHECKSUM == Addr("DAfe")
\* 40 hex digits without the 0x prefix
ADDR_BARE == SubSeq(ADDR_BOB, 3, Len(ADDR_BOB))

\* the contacts a user adds: a second "bob" in another letter case and with
\* another address, and a contact whose name ends in the name-service suffix
ContactEntries == {[name |-> Str("BOB"), address |-> ADDR_CAROL],
                   [name |-> Str("bob.eth"), address |-> ADDR_BOB]}
ContactNames == {Str("bob"), Str("Bob.eth")}
ResolveChains == {1, 8453}
ResolveUsers == {ADDR_ALICE, ADDR_ALICE_CHECKSUM, ADDR_CAROL}
RecipientInputs ==
    {ADDR_BOB, ADDR_DAVE, ADDR_BAD_CHECKSUM, ADDR_BARE, toUpperCase(ADDR_BARE),
     Str("bob"), Str("Bob.eth"), Str("BOB.ETH"), Str("zed.eth"), Str("zed")}
TokenInputs ==
    {ADDR_BOB, ADDR_DAVE, ADDR_BAD_CHECKSUM, ADDR_BARE, toUpperCase(ADDR_BARE),
     Addr("A0B8"), Addr("a0b8"), Str("usdc"), Str(" USDC "), Str("eth"), Str("usd"), Str("zed"),
     Str("btc"), Str("Ether"), Str("weth"), Str("constructor"), Str(" __proto__"), Str("$")}

\* add_contact by a known user
AddContact ==
    /\ Cardinality(contacts) < MaxContacts
    /\ \E userAddress \in ResolveUsers, entry \in ContactEntries :
         /\ findUser(users, userAddress) # {}
         /\ contacts' = AddContactRow(contacts,
                            (CHOOSE u \in findUser(users, userAddress) : TRUE).id,
                            entry.name, entry.address)
    /\ probe' = NoProbe
    /\ UNCHANGED <<users, transactions, ioInstance, events, req, nreq,
                   agentCache, lunarkAgents, message, payments, userBalance, stream>>

\* delete_contact by a known user: the first live contact of that name
DeleteContact ==
    /\ \E userAddress \in ResolveUsers, name \in ContactNames, row \in contacts :
         /\ \E u \in findUser(users, userAddress) : row.userId = u.id
         /\ ~row.deleted
         /\ toLowerCase(row.name) = toLowerCase(name)
         /\ contacts' = DeleteContactRow(contacts, row)
    /\ probe' = NoProbe
    /\ UNCHANGED <<users, transactions, ioInstance, events, req, nreq,
                   agentCache, lunarkAgents, message, payments, userBalance, stream>>

\* one call of transfer.ts resolveRecipient
ResolveRecipientCall ==
    /\ probe = NoProbe
    /\ \E recipient \in RecipientInputs, userAddress \in ResolveUsers, chainId \in ResolveChains,
          ens \in EnsOutcomes :
         \E result \in resolveRecipient(recipient, userAddress, chainId, users, contacts, ens) :
            probe' = [fn |-> "resolveRecipient", recipient |-> recipient,
                      userAddress |-> userAddress, chainId |-> chainId, ens |-> ens,
                      result |-> result]
    /\ UNCHANGED <<users, contacts, transactions, ioInstance, events, req, nreq,
                   agentCache, lunarkAgents, message, payments, userBalance, stream>>

\* one call of the resolveToken of one of the three tools
ResolveTokenCall ==
    /\ probe = NoProbe
    /\ \E tool \in {"transfer", "approve", "swap"}, tokenInput \in TokenInputs,
          chainId \in ResolveChains :
         probe' = [fn |-> "resolveToken", tool |-> tool, tokenInput |-> tokenInput,
                   chainId |-> chainId,
                   result |-> CASE tool = "transfer" -> resolveToken_transfer(tokenInput, chainId)
                                [] tool = "approve" -> resolveToken_approve(tokenInput, chainId)
                                [] OTHER -> resolveToken_swap(tokenInput, chainId)]
    /\ UNCHANGED <<users, contacts, transactions, ioInstance, events, req, nreq,
                   agentCache, lunarkAgents, message, payments, userBalance, stream>>

\* the caller has taken the result
ResolveReturn ==
    /\ probe.fn \in {"resolveRecipient", "resolveToken"}
    /\ probe' = NoProbe
    /\ UNCHANGED <<users, contacts, transactions, ioInstance, events, req, nreq,
                   agentCache, lunarkAgents, message, payments, userBalance, stream>>

NextResolve ==
    AddContact \/ DeleteContact \/ ResolveRecipientCall \/ ResolveTokenCall \/ ResolveReturn

SpecResolve == Init /\ [][NextResolve]_vars

\* ------------------------------------------- the status updates of the records
\* the values the store's status column admits: the enumeration of the
\* PendingTransaction entity, in the spelling the handlers write
TransactionStatus == {"pending", "confirmed", "failed"}

\* db.user.findFirst({ where: { address, deletedAt: null } })
findFirstUser(dbUsers, address) == {u \in findUser(dbUsers, address) : ~u.deleted}

\* the route without its ownership check: any live user updates any record
patchTransaction_withoutOwnership(dbUsers, rows, userAddress, id, status, hash, storeAnswers) ==
    LET refused(code, error) == [code |-> code, error |-> error, rows |-> rows]
        user == findFirstUser(dbUsers, userAddress)
    IN IF ~storeAnswers THEN refused(500, "Failed to update transaction")
       ELSE IF user = {} THEN refused(404, "User not found")
       ELSE IF id > Len(rows) THEN refused(404, "Transaction not found")
       ELSE LET transaction == rows[id]
                data == [status |-> IF status = "<undefined>" THEN transaction.status
                                    ELSE status,
                         hash |-> IF hash = "<undefined>" THEN transaction.hash
                                  ELSE hash]
            IN IF data.status \notin TransactionStatus
               THEN refused(500, "Failed to update transaction")
               ELSE [code |-> 200, error |-> "",
                     rows |-> [rows EXCEPT ![id].status = data.status,
                                           ![id].hash = data.hash]]

\* router.patch('/transaction/:id') on the rows of the store: the user of
\* the caller, the transaction, the ownership check, then the update with
\* status || transaction.status and hash || transaction.hash; a rejection of
\* any store call, the update's rejection of a status outside the column's
\* values included, is answered with 500. status and hash of the body may
\* each be absent (an empty string, being falsy, is as good as absent). The
\* result is the answer and the rows of the store afterwards
patchTransaction(dbUsers, rows, userAddress, id, status, hash, storeAnswers) ==
    LET refused(code, error) == [code |-> code, error |-> error, rows |-> rows]
        user == findFirstUser(dbUsers, userAddress)
    IN IF ~storeAnswers THEN refused(500, "Failed to update transaction")
       ELSE IF user = {} THEN refused(404, "User not found")
       ELSE IF id > Len(rows) THEN refused(404, "Transaction not found")
       ELSE IF rows[id].userId # (CHOOSE u \in user : TRUE).id
            THEN refused(403, "Access denied")
       ELSE LET transaction == rows[id]
                data == [status |-> IF status = "<undefined>" THEN transaction.status
                                    ELSE status,
                         hash |-> IF hash = "<undefined>" THEN transaction.hash
                                  ELSE hash]
            IN IF data.status \notin TransactionStatus
               THEN refused(500, "Failed to update transaction")
               ELSE [code |-> 200, error |-> "",
                     rows |-> [rows EXCEPT ![id].status = data.status,
                                           ![id].hash = data.hash]]

\* the bodies and callers of the requests: the callers the token check lets
\* through are the two users and an address with no user row
PatchCallers == {ADDR_ALICE, ADDR_CAROL, ADDR_DAVE}
PatchStatuses == {"<undefined>", "pending", "confirmed", "failed", "cancelled"}
PatchHashes == {"<undefined>", "0xh1"}

\* a PATCH request of any caller for any id; the answer itself is not kept
PatchTransaction ==
    /\ transactions' \in
         {patchTransaction(users, transactions, userAddress, id, status, hash, storeAnswers).rows :
            userAddress \in PatchCallers, id \in 1..(Len(transactions) + 1),
            status \in PatchStatuses, hash \in PatchHashes, storeAnswers \in BOOLEAN}
    /\ UNCHANGED <<users, contacts, ioInstance, events, req, nreq, probe,
                   agentCache, lunarkAgents, message, payments, userBalance, stream>>

\* the tool calls that prepare the records: a transfer, an approval and a
\* swap that can succeed, by either user
PrepareCall ==
    /\ CanInvoke
    /\ \E userAddress \in {ADDR_ALICE, ADDR_CAROL} :
         \/ InvokeTransfer(ADDR_BOB, AmountOf(1), Null, Null, userAddress, 8453, Str("c1"))
         \/ InvokeApprove(Str("usdc"), Str("Uniswap"), AmountOf(1), userAddress, 8453, Str("c1"))
         \/ InvokeSwap(Str("usdc"), Str("eth"), AmountOf(1), Null, NoSlippage, userAddress,
                       8453, Str("c1"))

NextPatch ==
    \/ InitSocket \/ Return \/ PrepareCall
    \/ TransferResolve \/ TransferBalance \/ ApproveBuild
    \/ SwapBalance \/ SwapQuoteCall \/ SwapAllowance
    \/ FindUserStep \/ PersistStep \/ PublishStep
    \/ PatchTransaction

SpecPatch == Init /\ [][NextPatch]_vars

\* ------------------------------------------ the owner of a record and PATCH

\* userRoutes.delete('/me'): the caller's row gets a deletedAt; a caller
\* without a live row is answered 404 and nothing is written
DeleteUser ==
    /\ \E userAddress \in PatchCallers :
         LET user == findFirstUser(users, userAddress)
         IN users' = {IF u \in user THEN [u EXCEPT !.deleted = TRUE] ELSE u : u \in users}
    /\ UNCHANGED <<contacts, transactions, ioInstance, events, req, nreq, probe,
                   agentCache, lunarkAgents, message, payments, userBalance, stream>>

\* a PATCH request whose body, caller and answer are kept, until the answer
\* is sent, next to the users and rows it met and the rows it left; the
\* requests are taken one at a time, between the tool calls
PatchAnswered ==
    /\ req.pc = "idle" /\ probe = NoProbe
    /\ \E userAddress \in PatchCallers, id \in 1..(Len(transactions) + 1),
          status \in PatchStatuses, hash \in PatchHashes, storeAnswers \in BOOLEAN :
         LET res == patchTransaction(users, transactions, userAddress, id, status, hash,
                                     storeAnswers)
         IN /\ transactions' = res.rows
            /\ probe' = [fn |-> "patch", userAddress |-> userAddress, id |-> id,
                         status |-> status, hash |-> hash, code |-> res.code,
                         error |-> res.error, users |-> users, before |-> transactions,
                         after |-> res.rows]
    /\ UNCHANGED <<users, contacts, ioInstance, events, req, nreq,
                   agentCache, lunarkAgents, message, payments, userBalance, stream>>

\* res.json(...) or res.status(...).json(...): the answer has been sent
PatchSent ==
    /\ probe # NoProbe
    /\ probe' = NoProbe
    /\ UNCHANGED <<users, contacts, transactions, ioInstance, events, req, nreq,
                   agentCache, lunarkAgents, message, payments, userBalance, stream>>

\* the records are prepared by transfers of either user
PrepareTransfer ==
    /\ CanInvoke /\ probe = NoProbe
    /\ \E userAddress \in {ADDR_ALICE, ADDR_CAROL} :
         InvokeTransfer(ADDR_BOB, AmountOf(1), Null, Null, userAddress, 8453, Str("c1"))

NextOwner ==
    \/ InitSocket \/ Return \/ PrepareTransfer
    \/ TransferResolve \/ TransferBalance
    \/ FindUserStep \/ PersistStep \/ PublishStep
    \/ DeleteUser \/ PatchAnswered \/ PatchSent

SpecOwner == Init /\ [][NextOwner]_vars

\* ------------------------------------------- the agents of the message route

MaxMessages == 2

\* cachedSystemPrompt.includes(`Chain ID: ${this.chainId}`): the prompt of
\* an agent names its own chain and lists every chain of NETWORKS, each as
\* 'Chain ID: <number>'; the text looked for ends with the number, so it is
\* found as the head of a longer number too
promptIncludes(cachedChainId, chainId) ==
    \E n \in NETWORKS \cup {cachedChainId} : \E k \in 0..8 : n \div (10 ^ k) = chainId

\* messageRoutes.post('/') up to agent.initialize(): a request without a live
\* user row is answered 404; new LunarkAgent(userAddress, chainId) is the
\* next instance; initialize takes the cached agent of the address when its
\* prompt names the chain, and otherwise creates an agent whose tool
\* handlers read the context from this instance, and caches it. An agent is
\* known by the instance that created it. The 402 answer to a user whose
\* balance is below the estimated cost is a refusal like the 404 and is left
\* out
PostMessage ==
    /\ message = NoMessage /\ req.pc = "idle" /\ Len(lunarkAgents) < MaxMessages
    /\ \E userAddress \in {ADDR_ALICE, ADDR_CAROL}, chatId \in {Str("c1"), Str("c2")},
          chainId \in Chains :
         LET this == Len(lunarkAgents) + 1
             cached == {c \in agentCache : c.userAddress = userAddress}
             hit == {c \in cached : promptIncludes(c.chainId, chainId)}
         IN /\ findFirstUser(users, userAddress) # {}
            /\ lunarkAgents' = Append(lunarkAgents,
                  [userAddress |-> userAddress, chainId |-> chainId, currentChatId |-> Null,
                   agent |-> IF hit # {} THEN (CHOOSE c \in hit : TRUE).agent ELSE this])
            /\ agentCache' = IF hit # {} THEN agentCache
                             ELSE (agentCache \ cached)
                                  \cup {[userAddress |-> userAddress, chainId |-> chainId,
                                         agent |-> this]}
            /\ message' = [pc |-> "ask", chatId |-> chatId, agent |-> this]
    /\ UNCHANGED <<users, contacts, transactions, ioInstance, events, req, nreq, probe,
                   payments, userBalance, stream>>

\* LunarkAgent.ask: this.currentChatId = chatId, then the streamed run
AgentAsk ==
    /\ message.pc = "ask"
    /\ lunarkAgents' = [lunarkAgents EXCEPT ![message.agent].currentChatId = message.chatId]
    /\ message' = [message EXCEPT !.pc = "stream"]
    /\ UNCHANGED <<users, contacts, transactions, ioInstance, events, req, nreq, probe,
                   agentCache, payments, userBalance, stream>>

\* the handler registered by initialize, called by the run of the agent:
\* tool.handler(params, { userAddress: this.userAddress, chainId:
\* this.chainId, agent: this, chatId: this.currentChatId }), where this is
\* the instance that registered the handlers of the agent
AgentToolCall ==
    /\ message.pc = "stream"
    /\ LET this == lunarkAgents[lunarkAgents[message.agent].agent]
       IN InvokeTransfer(ADDR_BOB, AmountOf(1), Null, Null, this.userAddress, this.chainId,
                         this.currentChatId)

\* the end of the stream and agent.destroy(): this.agent = null, the cache
\* keeps the agent
MessageEnd ==
    /\ message.pc = "stream" /\ req.pc = "idle"
    /\ lunarkAgents' = [lunarkAgents EXCEPT ![message.agent].agent = 0]
    /\ message' = NoMessage
    /\ UNCHANGED <<users, contacts, transactions, ioInstance, events, req, nreq, probe,
                   agentCache, payments, userBalance, stream>>

\* the setInterval cleanup: an agent not used for CACHE_TTL leaves the cache
CleanupAgents ==
    /\ message = NoMessage
    /\ \E cached \in agentCache : agentCache' = agentCache \ {cached}
    /\ UNCHANGED <<users, contacts, transactions, ioInstance, events, req, nreq, probe,
                   lunarkAgents, message, payments, userBalance, stream>>

NextChat ==
    \/ InitSocket \/ Return
    \/ PostMessage \/ AgentAsk \/ AgentToolCall \/ MessageEnd \/ CleanupAgents
    \/ TransferResolve \/ TransferBalance
    \/ FindUserStep \/ PersistStep \/ PublishStep

SpecChat == Init /\ [][NextChat]_vars

\* ------------------------------------------------------------ the payments

MaxUserBalance == 4

\* the hashes and the ids of the provider a caller hands to verifyPayment
TransactionHashes == {"<undefined>", "0x<64 hex digits>", "0xshort"}
ExternalIds == {"<undefined>", "", "pi_1"}

\* verifyCryptoTransaction: txHash.startsWith('0x') && txHash.length === 66
verifyCryptoTransaction(txHash) == txHash = "0x<64 hex digits>"

\* verifyExternalPayment: externalId.length > 0
verifyExternalPayment(externalId) == externalId # ""

\* PaymentService.createPayment: a PENDING row of a user
CreatePayment ==
    /\ payments = <<>>
    /\ \E userId \in {"u1", "u2"}, amount \in 1..MaxAmount, method \in {"CRYPTO", "STRIPE", "PAYPAL"} :
         payments' = Append(payments, [userId |-> userId, amount |-> amount, status |-> "PENDING",
                                       method |-> method, transactionHash |-> "<null>",
                                       externalId |-> "<null>"])
    /\ UNCHANGED <<users, contacts, transactions, ioInstance, events, req, nreq, probe,
                   agentCache, lunarkAgents, message, userBalance, stream>>

\* PaymentService.verifyPayment, one call after the other: the row is read
\* ('Payment not found' when there is none), the proof is checked by the
\* method of the row, and the row becomes COMPLETED with the balance of its
\* user incremented, or FAILED; the status the row had is not looked at
VerifyPayment ==
    /\ \E paymentId \in 1..(Len(payments) + 1), transactionHash \in TransactionHashes,
          externalId \in ExternalIds :
         IF paymentId > Len(payments) THEN UNCHANGED <<payments, userBalance>>
         ELSE LET payment == payments[paymentId]
                  given(v) == v \notin {"<undefined>", ""}
                  verified == IF payment.method = "CRYPTO" /\ given(transactionHash)
                              THEN verifyCryptoTransaction(transactionHash)
                              ELSE IF given(externalId) THEN verifyExternalPayment(externalId)
                              ELSE FALSE
                  written(old, v) == IF v = "<undefined>" THEN old ELSE v
              IN IF verified
                 THEN /\ userBalance[payment.userId] + payment.amount <= MaxUserBalance
                      /\ payments' = [payments EXCEPT
                            ![paymentId].status = "COMPLETED",
                            ![paymentId].transactionHash = written(@, transactionHash),
                            ![paymentId].externalId = written(@, externalId)]
                      /\ userBalance' = [userBalance EXCEPT ![payment.userId] = @ + payment.amount]
                 ELSE /\ payments' = [payments EXCEPT ![paymentId].status = "FAILED"]
                      /\ userBalance' = userBalance
    /\ UNCHANGED <<users, contacts, transactions, ioInstance, events, req, nreq, probe,
                   agentCache, lunarkAgents, message, stream>>

\* PaymentService.refundPayment, one call after the other: only a COMPLETED
\* row is refunded; it becomes REFUNDED and the balance is decremented
RefundPayment ==
    /\ \E paymentId \in 1..(Len(payments) + 1) :
         IF paymentId > Len(payments) THEN UNCHANGED <<payments, userBalance>>
         ELSE LET payment == payments[paymentId]
              IN IF payment.status # "COMPLETED" THEN UNCHANGED <<payments, userBalance>>
                 ELSE /\ payments' = [payments EXCEPT ![paymentId].status = "REFUNDED"]
                      /\ userBalance' = [userBalance EXCEPT ![payment.userId] = @ - payment.amount]
    /\ UNCHANGED <<users, contacts, transactions, ioInstance, events, req, nreq, probe,
                   agentCache, lunarkAgents, message, stream>>

NextPayment == CreatePayment \/ VerifyPayment \/ RefundPayment

SpecPayment == Init /\ [][NextPayment]_vars

\* ------------------------------------------------- the streamed response

MaxChunks == 2

\* streamResponse up to the loop: chunks = [], isComplete = false,
\* error = null, the task node is added and graph.run is started with the
\* onChunk callback; lastIndex = 0. yielded is what the consumer has got
StreamStart ==
    /\ stream = NoStream
    /\ stream' = [pc |-> "test", run |-> "running", chunks |-> <<>>, isComplete |-> FALSE,
                  error |-> FALSE, lastIndex |-> 0, yielded |-> <<>>]
    /\ UNCHANGED <<users, contacts, transactions, ioInstance, events, req, nreq, probe,
                   agentCache, lunarkAgents, message, payments, userBalance>>

\* onChunk of the run: chunks.push(chunk)
OnChunk ==
    /\ stream.pc # "none" /\ stream.run = "running" /\ Len(stream.chunks) < MaxChunks
    /\ \E chunk \in {"a", "b"} : stream' = [stream EXCEPT !.chunks = Append(@, chunk)]
    /\ UNCHANGED <<users, contacts, transactions, ioInstance, events, req, nreq, probe,
                   agentCache, lunarkAgents, message, payments, userBalance>>

\* the run has resolved and .then has updated the graph and tracked the
\* usage: isComplete = true; or the run, graph.update or the tracking has
\* rejected and .catch has run: error = err, isComplete = true. Either way
\* graphPromise resolves
RunSettles ==
    /\ stream.pc # "none" /\ stream.run = "running"
    /\ \/ stream' = [stream EXCEPT !.run = "completed", !.isComplete = TRUE]
       \/ stream' = [stream EXCEPT !.run = "failed", !.error = TRUE, !.isComplete = TRUE]
    /\ UNCHANGED <<users, contacts, transactions, ioInstance, events, req, nreq, probe,
                   agentCache, lunarkAgents, message, payments, userBalance>>

\* the generator, from one suspension to the next: the test of the outer
\* loop, the throw of a stored error, one yield of the inner loop (the
\* consumer resumes it), the 10 ms sleep while the run is not complete, and
\* after the loop the await of graphPromise and the return
StreamStep ==
    /\ stream.pc \in {"test", "yield", "sleep", "await"}
    /\ LET more == stream.lastIndex < Len(stream.chunks)
           drained == IF ~stream.isComplete THEN [stream EXCEPT !.pc = "sleep"]
                      ELSE [stream EXCEPT !.pc = "test"]
       IN stream' =
            CASE stream.pc = "test" ->
                   IF ~(~stream.isComplete \/ more) THEN [stream EXCEPT !.pc = "await"]
                   ELSE IF stream.error THEN [stream EXCEPT !.pc = "thrown"]
                   ELSE IF more
                   THEN [stream EXCEPT !.pc = "yield",
                                       !.yielded = Append(@, stream.chunks[stream.lastIndex + 1])]
                   ELSE drained
              [] stream.pc = "yield" ->
                   LET next == [stream EXCEPT !.lastIndex = @ + 1]
                   IN IF next.lastIndex < Len(next.chunks)
                      THEN [next EXCEPT !.yielded = Append(@, next.chunks[next.lastIndex + 1])]
                      ELSE IF ~next.isComplete THEN [next EXCEPT !.pc = "sleep"]
                      ELSE [next EXCEPT !.pc = "test"]
              [] stream.pc = "sleep" -> [stream EXCEPT !.pc = "test"]
              [] stream.pc = "await" ->
                   IF stream.run = "running" THEN stream ELSE [stream EXCEPT !.pc = "returned"]
    /\ UNCHANGED <<users, contacts, transactions, ioInstance, events, req, nreq, probe,
                   agentCache, lunarkAgents, message, payments, userBalance>>

NextStream == StreamStart \/ OnChunk \/ RunSettles \/ StreamStep

SpecStream == Init /\ [][NextStream]_vars

\* ------------------------------------------------- the sockets of the users
\* the room memberships of the connected sockets, each with the address its
\* 'authenticate' message gave
Joined == IF probe = NoProbe THEN {} ELSE probe.joined

\* socket.on('authenticate') as it would be if it joined the room of the
\* address as given
Authenticate_joinsAsGiven ==
    /\ \E address \in {ADDR_ALICE, ADDR_ALICE_CHECKSUM, ADDR_CAROL} :
         probe' = [fn |-> "sockets",
                   joined |-> Joined \cup {[address |-> address, room |-> <<"user:">> \o address]}]
    /\ UNCHANGED <<users, contacts, transactions, ioInstance, events, req, nreq,
                   agentCache, lunarkAgents, message, payments, userBalance, stream>>

\* socket.on('authenticate', ({ address })): the socket joins
\* `user:${address.toLowerCase()}`
Authenticate ==
    /\ \E address \in {ADDR_ALICE, ADDR_ALICE_CHECKSUM, ADDR_CAROL} :
         probe' = [fn |-> "sockets",
                   joined |-> Joined \cup {[address |-> address,
                                            room |-> <<"user:">> \o toLowerCase(address)]}]
    /\ UNCHANGED <<users, contacts, transactions, ioInstance, events, req, nreq,
                   agentCache, lunarkAgents, message, payments, userBalance, stream>>

NextSocket ==
    \/ InitSocket \/ Return \/ PrepareCall
    \/ TransferResolve \/ TransferBalance \/ ApproveBuild
    \/ SwapBalance \/ SwapQuoteCall \/ SwapAllowance
    \/ FindUserStep \/ PersistStep \/ PublishStep
    \/ Authenticate

SpecSocket == Init /\ [][NextSocket]_vars

\* ------------------------------------------- swaps on a chain of four venues
\* swap_tokens on chain 1 (uniswap, sushiswap, curve, pancakeswap) by a
\* known user: a token or native input, an output that may be the same
\* asset, and a venue named or not, in several spellings
SwapVenueCall ==
    /\ CanInvoke
    /\ \E fromToken \in {Str("usdc"), Str("eth")}, toToken \in {Str("usdc"), Str("eth"), Str("weth"), toLowerCase(Addr("A0B8"))},
          dex \in {Null, Str("uniswap"), Str("Uniswap"), Str("sushiswap"), Str("traderjoe")} :
         InvokeSwap(fromToken, toToken, AmountOf(1), dex, NoSlippage, ADDR_ALICE, 1, Str("c1"))

NextVenue ==
    \/ InitSocket \/ Return \/ SwapVenueCall
    \/ SwapBalance \/ SwapQuoteCall \/ SwapAllowance
    \/ FindUserStep \/ PersistStep \/ PublishStep

SpecVenue == Init /\ [][NextVenue]_vars

\* ---------------------------------------------------------------- properties

\* C5: when getAllQuotes has returned and at least one quote call answered
\* a positive amount, the result is not empty and its first element's
\* amountOut is at least every positive amount answered and at least the
\* amountOut of every other element.
C5_BestQuoteFirst ==
    (probe.fn = "getAllQuotes" /\ probe.returned) =>
        LET log == probe.q.qlog
            viable == {i \in DOMAIN log : log[i].out.ok /\ log[i].out.v > 0}
        IN viable # {} =>
              /\ Len(probe.result) >= 1
              /\ \A i \in viable : probe.result[1].amountOut >= log[i].out.v
              /\ \A j \in DOMAIN probe.result :
                    probe.result[1].amountOut >= probe.result[j].amountOut

\* three venues quoted, the best of them gathered last: the sort moved it
C5_Witness ==
    /\ probe.fn = "getAllQuotes" /\ probe.returned
    /\ Len(probe.result) >= 3
    /\ probe.q.quotes[1].amountOut < probe.q.quotes[Len(probe.q.quotes)].amountOut
    /\ probe.q.quotes[2].amountOut < probe.q.quotes[Len(probe.q.quotes)].amountOut
    /\ probe.result[1].amountOut = probe.q.quotes[Len(probe.q.quotes)].amountOut

\* C6: for a slippage of 0 <= bps < 10000 basis points the minimum output
\* is floor(amountOut * (10000 - bps) / 10000): it is the largest integer
\* whose product with 10000 does not exceed amountOut * (10000 - bps), so
\* it is never rounded up, and it never exceeds amountOut.
C6_MinimumOutputIsFloor ==
    (probe.fn = "amountOutMin" /\ probe.applied /\ probe.bps >= 0 /\ probe.bps < 10000) =>
        /\ probe.result * 10000 <= probe.amountOut * (10000 - probe.bps)
        /\ (probe.result + 1) * 10000 > probe.amountOut * (10000 - probe.bps)
        /\ probe.result <= probe.amountOut
        /\ probe.result >= 0

\* a quotient with a remainder was truncated
C6_Witness ==
    /\ probe.fn = "amountOutMin" /\ probe.applied
    /\ probe.bps > 0 /\ probe.bps < 10000
    /\ probe.result > 0
    /\ probe.result * 10000 < probe.amountOut * (10000 - probe.bps)

\* C7: when getAllQuotes has returned, every venue of the chain was asked
\* (a call that threw or answered zero did not end the loop), and the
\* result holds one element for each venue that answered a positive amount,
\* with that amount, and nothing else.
C7_ExactlyThePositiveQuotes ==
    (probe.fn = "getAllQuotes" /\ probe.returned) =>
        LET log == probe.q.qlog
            result == probe.result
            dexes == getDexesForChain(probe.chainId)
            Positive(slug) == {i \in DOMAIN log :
                                 log[i].slug = slug /\ log[i].out.ok /\ log[i].out.v > 0}
        IN /\ \A d \in DOMAIN dexes : \E i \in DOMAIN log : log[i].slug = dexes[d].slug
           /\ \A d \in DOMAIN dexes :
                 (Positive(dexes[d].slug) # {}) <=>
                     (\E j \in DOMAIN result : result[j].slug = dexes[d].slug)
           /\ \A j, k \in DOMAIN result : result[j].slug = result[k].slug => j = k
           /\ \A j \in DOMAIN result :
                 /\ result[j].amountOut > 0
                 /\ \E i \in Positive(result[j].slug) : log[i].out.v = result[j].amountOut

\* a call threw, a later venue answered zero, a venue after both was quoted
C7_Witness ==
    /\ probe.fn = "getAllQuotes" /\ probe.returned
    /\ Len(probe.result) >= 1
    /\ \E i, j, k \in DOMAIN probe.q.qlog :
         /\ i < j /\ j < k
         /\ ~probe.q.qlog[i].out.ok
         /\ probe.q.qlog[j].out.ok /\ probe.q.qlog[j].out.v = 0
         /\ probe.q.qlog[j].slug # probe.q.qlog[i].slug
         /\ probe.q.qlog[k].out.ok /\ probe.q.qlog[k].out.v > 0

\* C9: each of the three resolveToken functions answers a well-formed
\* address with that very string as the token address.
C9_AddressTokenUnchanged ==
    (probe.fn = "resolveToken" /\ isAddress(probe.tokenInput)) =>
        /\ probe.result.ok
        /\ probe.result.address = probe.tokenInput

\* the swap resolver was given a mixed-case address that its symbol
\* normalisation would have altered
C9_Witness ==
    /\ probe.fn = "resolveToken" /\ probe.tool = "swap"
    /\ probe.tokenInput = ADDR_DAVE
    /\ toLowerCase(probe.tokenInput) # probe.tokenInput
    /\ probe.result.ok /\ probe.result.address = ADDR_DAVE

\* C10: resolveRecipient answers (a) a well-formed address with itself, no
\* resolvedFrom, no name-service query; (b) otherwise, when the requesting
\* user has a live contact whose name equals the input case-insensitively,
\* with the address of such a contact, tagged, without a name-service
\* query, whatever the input ends in; (c) otherwise, when the input ends in
\* '.eth' on chain 1 or 11155111, with the name-service answer if it is an
\* address and with an error if it is not; (d) otherwise with an error and
\* no name-service query.
C10_RecipientPrecedence ==
    probe.fn = "resolveRecipient" =>
        LET r == probe.result
            input == probe.recipient
            owned == {c \in contacts :
                        /\ \E u \in users : u.address = probe.userAddress /\ u.id = c.userId
                        /\ ~c.deleted
                        /\ toLowerCase(c.name) = toLowerCase(input)}
            named == endsWith(input, Str(".eth")) /\ probe.chainId \in {1, 11155111}
        IN IF isAddress(input)
           THEN r.ok /\ r.address = input /\ r.resolvedFrom = Null /\ ~r.ensQueried
           ELSE IF owned # {}
           THEN /\ r.ok /\ ~r.ensQueried /\ r.resolvedFrom # Null
                /\ \E c \in owned : r.address = c.address
           ELSE IF named
           THEN /\ r.ensQueried
                /\ r.ok <=> probe.ens.kind = "address"
                /\ r.ok => r.address = probe.ens.address /\ r.resolvedFrom # Null
           ELSE ~r.ok /\ ~r.ensQueried

\* an input ending in '.eth' on chain 1, with a name-service answer at hand,
\* was resolved from the user's contact of that name
C10_Witness ==
    /\ probe.fn = "resolveRecipient"
    /\ probe.recipient = Str("Bob.eth") /\ probe.chainId = 1
    /\ endsWith(probe.recipient, Str(".eth"))
    /\ probe.ens.kind = "address"
    /\ probe.result.ok /\ ~probe.result.ensQueried
    /\ probe.result.address = ADDR_BOB /\ probe.result.address # probe.ens.address

\* the tool call in progress or, once it has returned, as it stood on return
Invocation == IF req.pc = "done" THEN req.at ELSE req

\* rows written and pendingTransaction events published since the call began
RowsCreated == Len(transactions) - Invocation.rowsAtEntry
PendingEventsPublished ==
    Cardinality({i \in (Invocation.eventsAtEntry + 1)..Len(events) :
                    events[i].name = "pendingTransaction"})

\* the row db.transaction.create wrote for the call
RowAsCreated(r) ==
    [id |-> r.savedId, chatId |-> IF r.chatId = Null THEN <<>> ELSE r.chatId,
     userId |-> r.userId, type |-> r.tool, status |-> "pending", chainId |-> r.chainId,
     hash |-> "<null>"]

\* C1: a call of transfer, approve_token or swap_tokens never writes more
\* than one transaction row; a call that returned success wrote exactly
\* one, of the tool's type and with status pending; a call that returned
\* failure wrote none.
C1_OneRecordPerSuccess ==
    req.pc # "idle" =>
        /\ RowsCreated \in {0, 1}
        /\ RowsCreated = Invocation.created
        /\ (req.pc = "done" /\ req.success) =>
              /\ RowsCreated = 1
              /\ transactions[Len(transactions)].status = "pending"
              /\ transactions[Len(transactions)].type = Invocation.tool
              /\ transactions[Len(transactions)].id = Invocation.savedId
        /\ (req.pc = "done" /\ ~req.success) => RowsCreated = 0

\* a swap returned success with its one pending row
C1_Witness ==
    /\ req.pc = "done" /\ req.success /\ req.at.tool = "swap"
    /\ RowsCreated = 1
    /\ transactions[Len(transactions)].status = "pending"

\* C2: every pendingTransaction event names a row that is already stored;
\* the publish is attempted only with the row stored; and a call that
\* reached the publish returned success with the row as it was written,
\* whether the event went out or the publish failed (socket server never
\* initialised, or the emit threw).
C2_PersistBeforePublish ==
    /\ \A i \in DOMAIN events :
          events[i].name = "pendingTransaction" =>
              /\ events[i].id \in DOMAIN transactions
              /\ transactions[events[i].id].type = events[i].type
    /\ req.pc = "publish" =>
          /\ req.savedId \in DOMAIN transactions
          /\ transactions[req.savedId] = RowAsCreated(req)
          /\ PendingEventsPublished = 0
    /\ (req.pc = "done" /\ req.at.pc = "publish") =>
          /\ req.success
          /\ req.at.savedId \in DOMAIN transactions
          /\ transactions[req.at.savedId] = RowAsCreated(req.at)
          /\ PendingEventsPublished = req.at.published
    /\ (req.pc = "done" /\ req.success) => req.at.pc = "publish"

\* the socket server was never initialised: nothing was published, the row
\* is stored and the call returned success
C2_Witness ==
    /\ req.pc = "done" /\ req.at.pc = "publish"
    /\ ~ioInstance
    /\ PendingEventsPublished = 0
    /\ req.success
    /\ transactions[req.at.savedId] = RowAsCreated(req.at)

\* C3: a call whose balance query answered less than the amount has
\* returned the insufficient-balance error, has built no call data, has
\* written no row and has published no pendingTransaction event.
C3_InsufficientBalanceStopsEarly ==
    (req.pc # "idle" /\ Invocation.bal.ok /\ Invocation.bal.v < Invocation.amountWei) =>
        /\ req.pc = "done" /\ ~req.success /\ req.error = "InsufficientBalance"
        /\ ~Invocation.built /\ Invocation.tx = NoTx
        /\ RowsCreated = 0
        /\ PendingEventsPublished = 0

\* a token transfer was refused on its balance
C3_Witness ==
    /\ req.pc = "done" /\ req.error = "InsufficientBalance"
    /\ req.at.tool = "transfer"
    /\ req.at.tokenAddress # Null
    /\ req.at.bal.ok /\ req.at.bal.v < req.at.amountWei

\* C4: a transfer or swap is refused on its balance only after a balance
\* query that answered, and then exactly when the answer is strictly less
\* than the required amount; the balance asked for is the native balance
\* for the native asset and the token's balance for a token.
C4_RefusedIffStrictlyLess ==
    (req.pc # "idle" /\ Invocation.tool \in {"transfer", "swap"}) =>
        LET c == Invocation
            refused == req.pc = "done" /\ req.error = "InsufficientBalance"
            native == IF c.tool = "transfer" THEN c.tokenAddress = Null ELSE c.fromNative
            token == IF c.tool = "transfer" THEN c.tokenAddress ELSE c.fromAddress
        IN /\ refused => c.bal.ok
           /\ c.bal.ok =>
                 /\ refused <=> (c.bal.v < c.amountWei)
                 /\ c.balanceOf = IF native THEN <<"native">> ELSE token

\* a swap of a token whose balance equals the amount went on to the quotes
C4_Witness ==
    /\ req.pc = "quoting" /\ req.tool = "swap"
    /\ ~req.fromNative
    /\ req.bal.ok /\ req.bal.v = req.amountWei

\* the venues the registry lists for a chain
VenueOnChain(name, chainId) ==
    \E i \in DOMAIN DEX_PROTOCOLS :
        /\ DEX_PROTOCOLS[i].slug = toLowerCase(name)
        /\ chainId \in DEX_PROTOCOLS[i].supportedChains

\* C8: a swap that names a venue which is not a registered venue of the
\* chain issues no quote call and writes no row, and, once it has passed
\* the checks that come before the venue check, returns the
\* unsupported-venue error.
C8_UnknownVenueRefused ==
    (req.pc # "idle" /\ Invocation.tool = "swap" /\ Invocation.dex # Null
       /\ ~VenueOnChain(Invocation.dex, Invocation.chainId)) =>
        /\ Invocation.quoteCalls = 0
        /\ RowsCreated = 0
        /\ req.pc \in {"balance", "done"}
        /\ (req.pc = "done" /\ req.at.bal.ok /\ req.at.bal.v >= req.at.amountWei) =>
              ~req.success /\ req.error = "UnsupportedVenue"

\* C11: resolveToken, given an input that is no address (and, for transfer,
\* not empty), looks the lower-cased, trimmed input up in the alias table
\* and takes the alias when there is one; a symbol that is native on the
\* chain resolves to the native asset (transfer: no address; swap: the
\* wrapped address, flagged native; approve knows no native asset and
\* fails) and never to a registry entry; any other symbol resolves to the
\* registry address of that symbol on the chain, when there is one, and
\* fails with the token-not-found error when there is none.
C11_AliasNativeRegistry ==
    (probe.fn = "resolveToken" /\ probe.tokenInput \notin {Null, <<>>}
       /\ ~isAddress(probe.tokenInput)) =>
        LET r == probe.result
            key == trim(toLowerCase(probe.tokenInput))
            aliases == CASE probe.tool = "transfer" -> TOKEN_ALIASES_transfer
                         [] probe.tool = "approve" -> TOKEN_ALIASES_approve
                         [] OTHER -> TOKEN_ALIASES_swap
            symbol == toUpperCase(IF key \in DOMAIN aliases THEN aliases[key]
                                  ELSE probe.tokenInput)
            native == symbol \in nativeTokens(probe.chainId)
            listed == symbol \in TokenSymbols
                         /\ probe.chainId \in DOMAIN TOKENS(symbol).addresses
        IN IF native /\ probe.tool = "transfer" THEN r.ok /\ r.address = Null
           ELSE IF native /\ probe.tool = "swap"
           THEN r.ok /\ r.isNative /\ r.address = WRAPPED_NATIVE[probe.chainId]
           ELSE IF listed THEN r.ok /\ r.address = TOKENS(symbol).addresses[probe.chainId]
           ELSE ~r.ok /\ r.error = "TokenNotFound"

\* the amount string of the approval is the word w, in any letter case
AmountWord(a, w) == a.kind = "text" /\ toLowerCase(a.text) = w

\* C12 as stated: the encoded amount is the maximum for "unlimited", zero
\* for "0" and "revoke", and the parsed amount for every other string; the
\* label says Revoke exactly when the encoded amount is zero.
C12_AsStated ==
    (req.pc # "idle" /\ Invocation.tool = "approve" /\ Invocation.built) =>
        LET a == Invocation.amount
            d == Invocation.tx.data
            revoke == (a.kind = "num" /\ a.n = 0 /\ a.plain) \/ AmountWord(a, Str("revoke"))
        IN /\ IF AmountWord(a, Str("unlimited")) THEN d.unlimited
              ELSE IF revoke THEN ~d.unlimited /\ d.amount = 0
              ELSE a.kind = "num" /\ ~d.unlimited /\ d.amount = a.n
           /\ (Invocation.buttonText.verb = "Revoke") <=> (~d.unlimited /\ d.amount = 0)

\* C12 as the code has it: the encoded amount is the maximum for
\* "unlimited" and "max", zero for "0" and "revoke" (words in any letter
\* case), and the parsed amount for every other string, which must parse;
\* the label says Revoke exactly when the amount string is "0" or "revoke",
\* so a string that parses to zero in another spelling ("0.0") is encoded as
\* zero and labelled Approve.
C12_ApprovalAmountForms ==
    (req.pc # "idle" /\ Invocation.tool = "approve" /\ Invocation.built) =>
        LET a == Invocation.amount
            d == Invocation.tx.data
            unlimited == AmountWord(a, Str("unlimited")) \/ AmountWord(a, Str("max"))
            revoke == (a.kind = "num" /\ a.n = 0 /\ a.plain) \/ AmountWord(a, Str("revoke"))
        IN /\ d.fn = "approve"
           /\ IF unlimited THEN d.unlimited
              ELSE IF revoke THEN ~d.unlimited /\ d.amount = 0
              ELSE a.kind = "num" /\ ~d.unlimited /\ d.amount = a.n
           /\ (Invocation.buttonText.verb = "Revoke") <=> revoke
           /\ revoke => (~d.unlimited /\ d.amount = 0)

\* an approval of "0.0" was stored: encoded as zero, labelled Approve
C12_Witness ==
    /\ req.pc = "done" /\ req.success /\ req.at.tool = "approve"
    /\ req.at.amount = AmountPadded(0)
    /\ req.at.tx.data.amount = 0 /\ ~req.at.tx.data.unlimited
    /\ req.at.buttonText.verb = "Approve"

\* the swap has its transaction built: needsApproval is true exactly when the
\* input token is not native and the allowance read for the best venue's
\* router is less than amountIn
NeedsApprovalAsQueried ==
    (req.pc = "findUser" /\ req.tool = "swap")
        => (req.needsApproval <=> (/\ ~req.fromNative
                                   /\ req.allowance.ok
                                   /\ req.allowance.v < req.tx.data.amount))

\* every pendingTransaction event of the swap carries the needsApproval the
\* result carries
NeedsApprovalPublished ==
    (req.pc = "done" /\ req.at.tool = "swap")
        => \A i \in (req.at.eventsAtEntry + 1)..Len(events) :
              events[i].needsApproval = req.at.needsApproval

\* C13: the allowance check of a swap never blocks the flow: whether the
\* allowance query answers with a sufficient allowance, an insufficient one,
\* or fails, the swap does not fail at that query; the result and the
\* published event carry needsApproval, which is true exactly when the input
\* token is not native and the allowance for the selected venue's router is
\* less than amountIn.
C13_AllowanceNeverBlocks ==
    /\ ~(/\ req.pc = "done" /\ ~req.success /\ req.at.tool = "swap"
         /\ req.at.pc = "allowance" /\ ~req.at.allowance.ok)
    /\ NeedsApprovalAsQueried
    /\ NeedsApprovalPublished

\* C14: when the data-store write of the pending record fails, the request
\* fails and nothing is published: a call that found its user and has
\* returned with no record written returned a failure, and no
\* pendingTransaction event was emitted for it.
C14_FailedWritePublishesNothing ==
    (req.pc = "done" /\ req.at.userId # "none" /\ RowsCreated = 0)
        => (~req.success /\ PendingEventsPublished = 0 /\ req.at.published = 0)

\* the write failed while the channel was up
C14_Witness ==
    /\ req.pc = "done" /\ req.at.pc = "persist" /\ req.error = "PersistenceError"
    /\ req.at.userId # "none" /\ RowsCreated = 0
    /\ ioInstance /\ PendingEventsPublished = 0

EventsOfCall ==
    {i \in (Invocation.eventsAtEntry + 1)..Len(events) : events[i].name = "pendingTransaction"}

\* C16: every pendingTransaction publish is addressed to the channel keyed by
\* the lower-cased user address, which is the channel a socket has joined on
\* 'authenticate' with that address in any letter case.
C16_PublishedToTheJoinedRoom ==
    req.pc # "idle" =>
        \A i \in EventsOfCall :
            /\ events[i].room = <<"user:">> \o toLowerCase(Invocation.userAddress)
            /\ \A s \in Joined :
                  toLowerCase(s.address) = toLowerCase(Invocation.userAddress)
                      => s.room = events[i].room

\* a publish for a user whose socket authenticated with the checksum-case
\* address
C16_Witness ==
    /\ req.pc = "done" /\ req.success /\ req.at.userAddress = ADDR_ALICE
    /\ EventsOfCall # {}
    /\ \E s \in Joined : s.address = ADDR_ALICE_CHECKSUM

\* C17: in every built swap transaction, of either venue family, the value
\* is the input amount when the input token is native and zero otherwise;
\* for the path-based venues the call is the native-in form when the input
\* is native, the native-out form when only the output is native, and the
\* token-to-token form when neither is.
C17_ValueAndCallForm ==
    probe.fn = "buildSwapTransaction" =>
        /\ probe.tx.value = (IF probe.fromNative THEN probe.amountIn ELSE 0)
        /\ probe.slug # Str("uniswap") =>
              probe.tx.data.fn = (IF probe.fromNative THEN "swapExactETHForTokens"
                                  ELSE IF probe.toNative THEN "swapExactTokensForETH"
                                  ELSE "swapExactTokensForTokens")

\* a native input sent through a path-based venue
C17_Witness ==
    /\ probe.fn = "buildSwapTransaction" /\ probe.slug = Str("sushiswap")
    /\ probe.fromNative /\ probe.amountIn > 0 /\ probe.tx.value = probe.amountIn
    /\ probe.tx.data.fn = "swapExactETHForTokens"

\* the venues a quote call of which has been answered
QuotedVenues == {probe.q.qlog[i].slug : i \in DOMAIN probe.q.qlog}

\* C18: within one swap request the venue quote queries are issued
\* concurrently: the query to a venue is never started after waiting for
\* the query to another venue to settle; and the quotes are ranked only
\* after every query has settled.
C18_QueriesIssuedConcurrently ==
    /\ [][(probe.fn = "getAllQuotes" /\ probe'.fn = "getAllQuotes"
            /\ probe.inflight = NoCall /\ probe'.inflight # NoCall)
              => QuotedVenues \subseteq {probe'.inflight.slug}]_vars
    /\ []((probe.fn = "getAllQuotes" /\ probe.returned) =>
            /\ probe.inflight = NoCall
            /\ \A d \in DOMAIN getDexesForChain(probe.chainId) :
                  getDexesForChain(probe.chainId)[d].slug \in QuotedVenues)

\* the part of C18 that holds: nothing is ranked before every query settled
RankedAfterAllSettled ==
    /\ (probe.fn = "getAllQuotes" /\ ~probe.returned) => probe.result = <<>>
    /\ (probe.fn = "getAllQuotes" /\ probe.returned) =>
          /\ probe.inflight = NoCall
          /\ \A d \in DOMAIN getDexesForChain(probe.chainId) :
                getDexesForChain(probe.chainId)[d].slug \in QuotedVenues

\* C19: each venue quote call is time-boxed, so the aggregation completes
\* even when a venue's call never answers: getAllQuotes, once entered,
\* eventually returns.
C19_AggregationTerminates ==
    (probe.fn = "getAllQuotes") ~> (probe.fn = "getAllQuotes" /\ probe.returned)

\* C20: for the fee-tier venue the tiers are tried in a fixed order (MEDIUM,
\* LOW, HIGH) and the first tier that answers a positive amount is the
\* venue's quote: no later tier is asked once one has succeeded, and the
\* venue is left out only if all three tiers failed or answered zero.
C20_FirstPositiveTierWins ==
    (probe.fn = "getAllQuotes" /\ probe.returned) =>
        LET log == probe.q.qlog
            tiers == <<FEE_MEDIUM, FEE_LOW, FEE_HIGH>>
            asked == {i \in DOMAIN log : log[i].slug = Str("uniswap")}
            Positive(i) == log[i].out.ok /\ log[i].out.v > 0
            quoted == \E j \in DOMAIN probe.result : probe.result[j].slug = Str("uniswap")
        IN asked # {} =>
              LET first == CHOOSE i \in asked : \A k \in asked : i <= k
                  last == CHOOSE i \in asked : \A k \in asked : i >= k
                  n == Cardinality(asked)
              IN /\ n <= Len(tiers)
                 /\ asked = first..last
                 /\ \A k \in 1..n : log[first + k - 1].fee = tiers[k]
                 /\ \A i \in asked : Positive(i) => i = last
                 /\ Positive(last) =>
                       \E j \in DOMAIN probe.result :
                           /\ probe.result[j].slug = Str("uniswap")
                           /\ probe.result[j].amountOut = log[last].out.v
                 /\ ~Positive(last) => (n = Len(tiers) /\ ~quoted)

\* MEDIUM failed, LOW answered a positive amount, HIGH was not asked
C20_Witness ==
    /\ probe.fn = "getAllQuotes" /\ probe.returned /\ probe.chainId = 1
    /\ Len(probe.q.qlog) >= 3
    /\ probe.q.qlog[1].fee = FEE_MEDIUM /\ ~probe.q.qlog[1].out.ok
    /\ probe.q.qlog[2].fee = FEE_LOW /\ probe.q.qlog[2].out.ok /\ probe.q.qlog[2].out.v > 0
    /\ probe.q.qlog[3].slug # Str("uniswap")
    /\ \E j \in DOMAIN probe.result :
          /\ probe.result[j].slug = Str("uniswap")
          /\ probe.result[j].amountOut = probe.q.qlog[2].out.v

\* the place of a venue in registration order
Registration(slug) == CHOOSE i \in DOMAIN DEX_PROTOCOLS : DEX_PROTOCOLS[i].slug = slug

\* the ranked list is in descending order of amountOut
RankedDescending ==
    (probe.fn = "getAllQuotes" /\ probe.returned) =>
        \A j, k \in DOMAIN probe.result :
            j < k => probe.result[j].amountOut >= probe.result[k].amountOut

\* C21: the ranked quote list is sorted descending by amountOut and quotes
\* with equal amountOut keep the registration order of their venues, so
\* among tied best quotes the earliest-registered venue comes first.
C21_TiesKeepRegistrationOrder ==
    (probe.fn = "getAllQuotes" /\ probe.returned) =>
        \A j, k \in DOMAIN probe.result :
            j < k =>
              /\ probe.result[j].amountOut >= probe.result[k].amountOut
              /\ probe.result[j].amountOut = probe.result[k].amountOut
                    => Registration(probe.result[j].slug) < Registration(probe.result[k].slug)

\* the swap call has returned after getAllQuotes answered, with a venue named
\* that getDex knows and that is on the chain
NamedVenueQuoted ==
    /\ req.pc = "done" /\ req.at.tool = "swap" /\ "ranked" \in DOMAIN req.at
    /\ req.at.dex # Null /\ req.at.dex # <<>>
    /\ getDex(req.at.dex).kind = "dex"
    /\ req.at.chainId \in getDex(req.at.dex).dex.supportedChains

\* the named venue is among the venues that gave a viable quote
NamedVenueViable ==
    \E j \in DOMAIN req.at.ranked : req.at.ranked[j] = getDex(req.at.dex).dex.slug

\* C22: when the caller names a venue that is supported on the chain, every
\* venue of the chain is still asked for a quote and the ranked list is
\* filtered afterwards; the swap is built for the named venue if it gave a
\* viable quote, and otherwise fails with the no-liquidity error and no
\* record is written.
C22_NamedVenueFilteredAfterwards ==
    NamedVenueQuoted =>
        /\ req.at.quoteCalls >= Len(getDexesForChain(req.at.chainId))
        /\ IF NamedVenueViable
           THEN /\ req.error # "NoLiquidity"
                /\ req.at.built =>
                      req.at.tx.to = routerAddress(getDex(req.at.dex).dex.slug, req.at.chainId)
           ELSE req.error = "NoLiquidity" /\ RowsCreated = 0

\* C22 for a venue named by its slug as registered
C22_BySlug ==
    (NamedVenueQuoted /\ req.at.dex = getDex(req.at.dex).dex.slug)
        => C22_NamedVenueFilteredAfterwards

\* C29: the requested venue name is matched without regard to letter case
\* throughout a swap: when a name in any letter case has passed the venue
\* lookup and the chain check and that venue gave a viable quote, the swap
\* does not fail with the no-liquidity error and what is built is built
\* for that venue.
C29_VenueNameInAnyCase ==
    (NamedVenueQuoted /\ NamedVenueViable) =>
        /\ req.error # "NoLiquidity"
        /\ req.at.built =>
              req.at.tx.to = routerAddress(toLowerCase(req.at.dex), req.at.chainId)

\* C23: the fee tier encoded in the exactInputSingle call of a built swap
\* is the tier at which the venue's quote was obtained when there is one,
\* and the mid tier otherwise: a quote obtained at the low or the high tier
\* is encoded with that tier.
C23_EncodedFeeIsQuotedTier ==
    (req.pc # "idle" /\ Invocation.tool = "swap" /\ Invocation.built
       /\ Invocation.tx.data.fn = "exactInputSingle") =>
        Invocation.tx.data.fee = (IF Invocation.tier # 0 THEN Invocation.tier ELSE FEE_MEDIUM)

\* the part of C23 that holds: a quote obtained at the mid tier is encoded
\* with the mid tier
EncodedFeeOfMidTierQuote ==
    (req.pc # "idle" /\ Invocation.tool = "swap" /\ Invocation.built
       /\ Invocation.tx.data.fn = "exactInputSingle" /\ Invocation.tier = FEE_MEDIUM) =>
        Invocation.tx.data.fee = FEE_MEDIUM

\* C30: a swap whose resolved input and output token addresses are equal
\* ignoring letter case, the chain's native asset against its wrapped form
\* included, is rejected before any balance query or quote call is made,
\* and no record is written.
C30_SameTokenRejectedFirst ==
    (req.pc # "idle" /\ Invocation.tool = "swap" /\ "toAddress" \in DOMAIN Invocation
       /\ toLowerCase(Invocation.fromAddress) = toLowerCase(Invocation.toAddress)) =>
        /\ req.pc = "done" /\ ~req.success /\ req.error = "SameToken"
        /\ req.at.pc = "start" /\ req.at.bal = NotAsked /\ req.at.allowance = NotAsked
        /\ req.at.quoteCalls = 0 /\ ~req.at.built
        /\ RowsCreated = 0 /\ PendingEventsPublished = 0

\* the native asset against its wrapped form
C30_Witness ==
    /\ req.pc = "done" /\ req.error = "SameToken" /\ req.at.chainId = 1
    /\ req.at.fromNative /\ req.at.toAddress = WRAPPED_NATIVE[1]
    /\ req.at.quoteCalls = 0 /\ RowsCreated = 0

\* the caller of the kept PATCH request has a live user row that owns the
\* record the request names
PatchByOwner ==
    /\ probe.id <= Len(probe.before)
    /\ \E u \in probe.users :
         /\ u.address = probe.userAddress /\ ~u.deleted
         /\ probe.before[probe.id].userId = u.id

\* C24: a PATCH changes a record only when its caller owns it: a request by
\* another user, for an unknown id, or by an unknown or deleted user leaves
\* every record as it was and is answered with an error; a change touches the
\* named record only; an omitted status or hash keeps the stored value, and a
\* stored hash is never cleared.
C24_OnlyTheOwnerChangesARecord ==
    probe.fn = "patch" =>
       /\ ~PatchByOwner => probe.after = probe.before /\ probe.code >= 400
       /\ probe.code >= 400 => probe.after = probe.before
       /\ Len(probe.after) = Len(probe.before)
       /\ \A i \in 1..Len(probe.before) :
            /\ i # probe.id => probe.after[i] = probe.before[i]
            /\ probe.status = "<undefined>" => probe.after[i].status = probe.before[i].status
            /\ probe.hash = "<undefined>" => probe.after[i].hash = probe.before[i].hash
            /\ probe.before[i].hash # "<null>" => probe.after[i].hash # "<null>"
            /\ [probe.after[i] EXCEPT !.status = "pending", !.hash = "<null>"]
                  = [probe.before[i] EXCEPT !.status = "pending", !.hash = "<null>"]

\* a deleted user has asked to confirm the own record, which carries a hash
\* from an earlier update, and has been refused
C24_Witness ==
    /\ probe.fn = "patch" /\ probe.code = 404 /\ probe.status = "confirmed"
    /\ probe.id <= Len(probe.before)
    /\ probe.before[probe.id].hash = "0xh1"
    /\ \E u \in probe.users :
         u.address = probe.userAddress /\ u.deleted /\ probe.before[probe.id].userId = u.id

\* C25: the chatId a tool call receives, stores in its record and sends in
\* its pendingTransaction event is the chatId of the message request being
\* served, whichever LunarkAgent instance registered the handlers of the
\* agent in use.
C25_ChatIdOfTheRequest ==
    message.pc = "stream" /\ req.pc # "idle" =>
       /\ Invocation.chatId = message.chatId
       /\ \A i \in (Invocation.rowsAtEntry + 1)..Len(transactions) :
            transactions[i].chatId = message.chatId
       /\ \A i \in EventsOfCall : events[i].chatId = message.chatId

\* C26: whatever verifyPayment and refundPayment calls a payment has seen,
\* the balance of its user holds the amount of the payment while the payment
\* is COMPLETED and nothing of it while it is PENDING, FAILED or REFUNDED (no
\* other payment touches the balance here).
C26_NetCreditFollowsStatus ==
    \A i \in 1..Len(payments) :
        userBalance[payments[i].userId] =
            IF payments[i].status = "COMPLETED" THEN payments[i].amount ELSE 0

\* C27: the consumer of streamResponse gets the delivered chunks once each
\* and in delivery order; the generator returns only after the run has
\* settled, and then, if the run completed, every chunk has been yielded; if
\* the run failed the generator does not return normally.
C27_StreamYieldsAllOrThrows ==
    /\ stream.pc # "none" =>
          /\ Len(stream.yielded) <= Len(stream.chunks)
          /\ stream.yielded = SubSeq(stream.chunks, 1, Len(stream.yielded))
    /\ stream.pc = "returned" =>
          /\ stream.run # "running"
          /\ stream.run = "completed" => stream.yielded = stream.chunks
          /\ stream.run # "failed"

\* the input names the native asset of the chain for one of the resolvers:
\* it is absent or empty, or its symbol, as given or through an alias table,
\* is a native symbol of the chain
DenotesNative(tokenInput, chainId) ==
    \/ tokenInput \in {Null, <<>>}
    \/ LET key == trim(toLowerCase(tokenInput))
       IN \E aliases \in {TOKEN_ALIASES_transfer, TOKEN_ALIASES_approve, TOKEN_ALIASES_swap} :
            isNativeToken(AliasOr(aliases, key, trim(tokenInput)), chainId)

\* C28: for an input that is no address and does not name the native asset
\* of the chain, the resolveToken of transfer, of approve and of swap all
\* fail or all give the same token address and decimals.
C28_ResolversAgree ==
    (probe.fn = "resolveToken" /\ ~isAddress(probe.tokenInput)
       /\ ~DenotesNative(probe.tokenInput, probe.chainId)) =>
        LET t == resolveToken_transfer(probe.tokenInput, probe.chainId)
            a == resolveToken_approve(probe.tokenInput, probe.chainId)
            s == resolveToken_swap(probe.tokenInput, probe.chainId)
        IN \/ ~t.ok /\ ~a.ok /\ ~s.ok
           \/ /\ t.ok /\ a.ok /\ s.ok
              /\ t.address = a.address /\ a.address = s.address
              /\ t.decimals = a.decimals /\ a.decimals = s.decimals

====
